---- MODULE Spec2Model ----
(***************************************************************************)
(* Model of src/main.cpp of voxel-raytracer: physical device selection,    *)
(* swap chain parameter negotiation, and the frame loop of main() with its *)
(* two frames in flight, together with the graphics queue and the          *)
(* presentation engine the loop talks to.                                  *)
(***************************************************************************)
EXTENDS Integers, Sequences, FiniteSets, TLC

\* ------------------------------------------------------------------------
\* Program constants and model bounds
\* ------------------------------------------------------------------------

\* main.cpp:15
MAX_FRAMES_IN_FLIGHT == 2

\* width in bits of the model's uint32_t and int (TLC's integers stop at 2^31 - 1)
WordBits == 8

\* 2^WordBits: uint32_t arithmetic wraps modulo this
UintModulus == 2 ^ WordBits

\* std::numeric_limits<uint32_t>::max(), main.cpp:199
UINT32_MAX == UintModulus - 1

\* the largest int, main.cpp:203
INT_MAX == (UintModulus \div 2) - 1

\* number of loop iterations the model lets main() start
MaxFrames == 5

\* number of images the swap chain holds
NumImages == 3

Slots == 0 .. (MAX_FRAMES_IN_FLIGHT - 1)

Images == 0 .. (NumImages - 1)

Frames == 1 .. MaxFrames

VARIABLES
    pc,                          \* position of main()'s control thread
    current_frame,               \* main.cpp:856
    image_index,                 \* main.cpp:869
    should_close,                \* the window's close flag (glfwWindowShouldClose)
    frame,                       \* number of loop iterations started so far
    in_flight_fences,            \* slot -> signaled?
    command_buffers,             \* slot -> lifecycle state of the command buffer
    image_available_semaphores,  \* slot -> signaled?
    render_finished_semaphores,  \* slot -> signaled?
    fence_observed,              \* what vkWaitForFences saw when it returned
    acquires,                    \* acquire operations whose semaphore signal is pending
    jobs,                        \* submissions on the graphics queue not yet complete
    presents,                    \* present requests on the present queue, in issue order
    images,                      \* image -> "free" | "acquired" | "queued"
    acq_fired,                   \* iterations whose image-available signal has fired
    color_reached,               \* iterations whose submission passed its semaphore wait
    rendered,                    \* iterations whose submission completed
    presented,                   \* iterations whose present request executed
    calls,                       \* calls main() has made in the current iteration
    logged,                      \* the error main() has logged in the loop, if any
    destroyed,                   \* objects main() has destroyed, in order
    swapchain_objects,           \* swap chain, extent, render pass, pipeline, framebuffers
    framebuffer_resized,         \* the window's framebuffer is no longer of the extent
    present_result,              \* what the last vkQueuePresentKHR returned
    acquire_result,              \* what vkAcquireNextImageKHR returned in this iteration
    physical_devices,            \* main.cpp:285, what vkEnumeratePhysicalDevices reports
    sel_pc,                      \* position of main() in device selection
    dev_i,                       \* devices the loop of main.cpp:290 has rated
    best_device,                 \* main.cpp:288, 0 is nullptr, k the k-th device
    highest_score,               \* main.cpp:289
    physdev_indices,             \* main.cpp:758
    queue_create_infos,          \* main.cpp:302, of create_device
    swapchain_details,           \* main.cpp:762
    framebuffer_size,            \* what glfwGetFramebufferSize reports, main.cpp:204
    swap_pc,                     \* position of main() in swap chain creation
    create_info,                 \* main.cpp:363, the VkSwapchainCreateInfoKHR
    main_choice,                 \* main.cpp:788-790, format, present mode and extent of main
    boot_pc,                     \* position of main() in startup, main.cpp:710-856
    main_physdev,                \* main.cpp:746, physdev of main()
    failed_calls,                \* the calls of startup that returned a failure
    swapchain_images,            \* main.cpp:782-786, the number of swap chain images
    swapchain_image_views,       \* main.cpp:792
    swapchain_framebuffers,      \* main.cpp:816
    sync_i                       \* main.cpp:840, the index of the loop

loopVars == <<pc, current_frame, image_index, should_close, frame,
              in_flight_fences, command_buffers, image_available_semaphores,
              render_finished_semaphores, fence_observed, acquires, jobs,
              presents, images, acq_fired, color_reached, rendered, presented,
              calls, logged, destroyed, swapchain_objects, framebuffer_resized,
              present_result, acquire_result>>

selVars == <<physical_devices, sel_pc, dev_i, best_device, highest_score,
             physdev_indices, queue_create_infos>>

swapVars == <<swapchain_details, framebuffer_size, swap_pc, create_info, main_choice>>

bootVars == <<boot_pc, main_physdev, failed_calls, swapchain_images,
              swapchain_image_views, swapchain_framebuffers, sync_i>>

startupVars == <<selVars, swapVars, bootVars>>

vars == <<loopVars, startupVars>>

cpuVars == <<pc, current_frame, image_index, should_close, frame, fence_observed>>

ghostVars == <<acq_fired, color_reached, rendered, presented>>

\* ------------------------------------------------------------------------
\* main(): state on entry to the frame loop (main.cpp:834-856)
\* ------------------------------------------------------------------------

\* the objects main.cpp:776-820 constructed and the loop shares between the
\* slots, each with the number of times it has been built
Constructed == [swapchain |-> 1, extent |-> 1, render_pass |-> 1, pipeline |-> 1,
                swapchain_framebuffers |-> 1]

LoopState(at) ==
    /\ pc = at
    /\ current_frame = 0
    /\ image_index = 0
    /\ should_close = FALSE
    /\ frame = 0
    /\ in_flight_fences = [i \in Slots |-> TRUE]
    /\ command_buffers = [i \in Slots |-> "initial"]
    /\ image_available_semaphores = [i \in Slots |-> FALSE]
    /\ render_finished_semaphores = [i \in Slots |-> FALSE]
    /\ fence_observed = FALSE
    /\ acquires = {}
    /\ jobs = {}
    /\ presents = <<>>
    /\ images = [k \in Images |-> "free"]
    /\ acq_fired = {}
    /\ color_reached = {}
    /\ rendered = {}
    /\ presented = {}
    /\ calls = <<>>
    /\ logged = "none"
    /\ destroyed = <<>>
    /\ swapchain_objects = Constructed
    /\ framebuffer_resized = FALSE
    /\ present_result = "none"
    /\ acquire_result = "none"

\* std::optional without a value, main.cpp:136
nullopt == {}

\* a null handle; a handle that is not null is the set of the one object it
\* refers to
nullptr == {}

\* device selection is not part of the run
SelectIdle ==
    /\ physical_devices = <<>>
    /\ sel_pc = "idle"
    /\ dev_i = 0
    /\ best_device = 0
    /\ highest_score = 0
    /\ physdev_indices = [graphics_family |-> nullopt, present_family |-> nullopt]
    /\ queue_create_infos = <<>>

\* swap chain creation is not part of the run
SwapchainIdle ==
    /\ swapchain_details = <<>>
    /\ framebuffer_size = <<>>
    /\ swap_pc = "idle"
    /\ create_info = <<>>
    /\ main_choice = <<>>

\* startup is not part of the run
StartupIdle ==
    /\ boot_pc = "idle"
    /\ main_physdev = nullptr
    /\ failed_calls = {}
    /\ swapchain_images = 0
    /\ swapchain_image_views = <<>>
    /\ swapchain_framebuffers = <<>>
    /\ sync_i = 0

\* ------------------------------------------------------------------------
\* main(): the frame loop (main.cpp:858-943) and shutdown (main.cpp:945-975)
\* ------------------------------------------------------------------------

\* while (!glfwWindowShouldClose(window)), main.cpp:858
LoopTest ==
    /\ pc = "loop_test"
    /\ IF should_close
       THEN /\ pc' = "wait_idle"
            /\ frame' = frame
            /\ calls' = calls
            /\ acquire_result' = acquire_result
       ELSE /\ frame < MaxFrames
            /\ pc' = "poll"
            /\ frame' = frame + 1
            /\ calls' = <<>>
            /\ acquire_result' = "none"
    /\ UNCHANGED <<current_frame, image_index, should_close, fence_observed>>
    /\ UNCHANGED <<in_flight_fences, command_buffers, image_available_semaphores,
                   render_finished_semaphores, acquires, jobs, presents, images>>
    /\ UNCHANGED ghostVars
    /\ UNCHANGED startupVars
    /\ UNCHANGED <<logged, destroyed,
                   swapchain_objects, framebuffer_resized, present_result>>

\* a loop that leaves as soon as a close request arrives
PollEvents_BreakOnClose ==
    /\ pc = "poll"
    /\ \E close_requested \in BOOLEAN :
            /\ should_close' = (should_close \/ close_requested)
            /\ pc' = IF close_requested THEN "wait_idle" ELSE "wait"
    /\ \E resize \in BOOLEAN : framebuffer_resized' = (framebuffer_resized \/ resize)
    /\ UNCHANGED <<current_frame, image_index, frame, fence_observed>>
    /\ UNCHANGED <<in_flight_fences, command_buffers, image_available_semaphores,
                   render_finished_semaphores, acquires, jobs, presents, images>>
    /\ UNCHANGED ghostVars
    /\ UNCHANGED startupVars
    /\ UNCHANGED <<calls, logged, destroyed, swapchain_objects, present_result,
                   acquire_result>>

\* a loop that goes on to the fence reset without the fence wait
PollEvents_SkipWait ==
    /\ pc = "poll"
    /\ \E close_requested \in BOOLEAN : should_close' = (should_close \/ close_requested)
    /\ \E resize \in BOOLEAN : framebuffer_resized' = (framebuffer_resized \/ resize)
    /\ pc' = "reset_fence"
    /\ UNCHANGED <<current_frame, image_index, frame, fence_observed>>
    /\ UNCHANGED <<in_flight_fences, command_buffers, image_available_semaphores,
                   render_finished_semaphores, acquires, jobs, presents, images>>
    /\ UNCHANGED ghostVars
    /\ UNCHANGED startupVars
    /\ UNCHANGED <<calls, logged, destroyed, swapchain_objects, present_result,
                   acquire_result>>

\* glfwPollEvents(), main.cpp:859: a close request of the user sets the flag
PollEvents ==
    /\ pc = "poll"
    /\ \E close_requested \in BOOLEAN : should_close' = (should_close \/ close_requested)
    /\ \E resize \in BOOLEAN : framebuffer_resized' = (framebuffer_resized \/ resize)
    /\ pc' = "wait"
    /\ UNCHANGED <<current_frame, image_index, frame, fence_observed>>
    /\ UNCHANGED <<in_flight_fences, command_buffers, image_available_semaphores,
                   render_finished_semaphores, acquires, jobs, presents, images>>
    /\ UNCHANGED ghostVars
    /\ UNCHANGED startupVars
    /\ UNCHANGED <<calls, logged, destroyed, swapchain_objects, present_result,
                   acquire_result>>

\* vkWaitForFences(device, 1, in_flight_fence, VK_TRUE, UINT64_MAX) returning
\* without the fence being signaled (a wait that does not block)
WaitForFences_NoBlock ==
    /\ pc = "wait"
    /\ calls' = Append(calls, "vkWaitForFences")
    /\ fence_observed' = in_flight_fences[current_frame]
    /\ pc' = "reset_fence"
    /\ UNCHANGED <<current_frame, image_index, should_close, frame>>
    /\ UNCHANGED <<in_flight_fences, command_buffers, image_available_semaphores,
                   render_finished_semaphores, acquires, jobs, presents, images>>
    /\ UNCHANGED ghostVars
    /\ UNCHANGED startupVars
    /\ UNCHANGED <<logged, destroyed,
                   swapchain_objects, framebuffer_resized, present_result,
                   acquire_result>>

\* vkWaitForFences(device, 1, in_flight_fence, VK_TRUE, UINT64_MAX), main.cpp:866:
\* blocks until the slot's fence is signaled
WaitForFences ==
    /\ pc = "wait"
    /\ calls' = Append(calls, "vkWaitForFences")
    /\ in_flight_fences[current_frame]
    /\ fence_observed' = in_flight_fences[current_frame]
    /\ pc' = "reset_fence"
    /\ UNCHANGED <<current_frame, image_index, should_close, frame>>
    /\ UNCHANGED <<in_flight_fences, command_buffers, image_available_semaphores,
                   render_finished_semaphores, acquires, jobs, presents, images>>
    /\ UNCHANGED ghostVars
    /\ UNCHANGED startupVars
    /\ UNCHANGED <<logged, destroyed,
                   swapchain_objects, framebuffer_resized, present_result,
                   acquire_result>>

\* a loop that forgets to reset the fence
ResetFences_Skip ==
    /\ pc = "reset_fence"
    /\ in_flight_fences' = in_flight_fences
    /\ pc' = "acquire"
    /\ UNCHANGED <<current_frame, image_index, should_close, frame, fence_observed>>
    /\ UNCHANGED <<command_buffers, image_available_semaphores,
                   render_finished_semaphores, acquires, jobs, presents, images>>
    /\ UNCHANGED ghostVars
    /\ UNCHANGED startupVars
    /\ UNCHANGED <<calls, logged, destroyed,
                   swapchain_objects, framebuffer_resized, present_result,
                   acquire_result>>

\* a reset of the fences of every slot
ResetFences_AllSlots ==
    /\ pc = "reset_fence"
    /\ calls' = Append(calls, "vkResetFences")
    /\ in_flight_fences' = [i \in Slots |-> FALSE]
    /\ pc' = "acquire"
    /\ UNCHANGED <<current_frame, image_index, should_close, frame, fence_observed>>
    /\ UNCHANGED <<command_buffers, image_available_semaphores,
                   render_finished_semaphores, acquires, jobs, presents, images>>
    /\ UNCHANGED ghostVars
    /\ UNCHANGED startupVars
    /\ UNCHANGED <<logged, destroyed,
                   swapchain_objects, framebuffer_resized, present_result,
                   acquire_result>>

\* vkResetFences(device, 1, in_flight_fence), main.cpp:867
ResetFences ==
    /\ pc = "reset_fence"
    /\ calls' = Append(calls, "vkResetFences")
    /\ in_flight_fences' = [in_flight_fences EXCEPT ![current_frame] = FALSE]
    /\ pc' = "acquire"
    /\ UNCHANGED <<current_frame, image_index, should_close, frame, fence_observed>>
    /\ UNCHANGED <<command_buffers, image_available_semaphores,
                   render_finished_semaphores, acquires, jobs, presents, images>>
    /\ UNCHANGED ghostVars
    /\ UNCHANGED startupVars
    /\ UNCHANGED <<logged, destroyed,
                   swapchain_objects, framebuffer_resized, present_result,
                   acquire_result>>

\* what vkAcquireNextImageKHR can return: suboptimal or out of date only once
\* the framebuffer is no longer of the swap chain's extent
AcquireResults ==
    IF framebuffer_resized
    THEN {"VK_SUCCESS", "VK_SUBOPTIMAL_KHR", "VK_ERROR_OUT_OF_DATE_KHR",
          "VK_ERROR_SURFACE_LOST_KHR"}
    ELSE {"VK_SUCCESS", "VK_ERROR_SURFACE_LOST_KHR"}

\* a loop that gives up the iteration when no image was acquired
AcquireNextImage_SkipOnError ==
    /\ pc = "acquire"
    /\ calls' = Append(calls, "vkAcquireNextImageKHR")
    /\ \E result \in AcquireResults :
        /\ acquire_result' = result
        /\ IF result \in {"VK_SUCCESS", "VK_SUBOPTIMAL_KHR"}
           THEN \E k \in Images :
                    /\ images[k] = "free"
                    /\ image_index' = k
                    /\ images' = [images EXCEPT ![k] = "acquired"]
                    /\ acquires' = acquires \cup
                            {[semaphore |-> current_frame, frame |-> frame]}
           ELSE /\ image_index' = 0
                /\ UNCHANGED <<images, acquires>>
        /\ pc' = IF result \in {"VK_SUCCESS", "VK_SUBOPTIMAL_KHR"}
                 THEN "reset_cb" ELSE "loop_test"
    /\ UNCHANGED <<current_frame, should_close, frame, fence_observed>>
    /\ UNCHANGED <<in_flight_fences, command_buffers, image_available_semaphores,
                   render_finished_semaphores, jobs, presents>>
    /\ UNCHANGED ghostVars
    /\ UNCHANGED startupVars
    /\ UNCHANGED <<logged, destroyed,
                   swapchain_objects, framebuffer_resized, present_result>>

\* uint32_t image_index = 0; vkAcquireNextImageKHR(..., UINT64_MAX,
\* *image_available_semaphore, VK_NULL_HANDLE, &image_index), main.cpp:869-870.
\* On success an image the presentation engine does not hold is handed out and
\* the signal of the slot's semaphore is scheduled; with no free image the call
\* blocks; on an error result nothing is written and nothing will be signaled.
\* The result is not looked at.
AcquireNextImage ==
    /\ pc = "acquire"
    /\ calls' = Append(calls, "vkAcquireNextImageKHR")
    /\ \E result \in AcquireResults :
        /\ acquire_result' = result
        /\ IF result \in {"VK_SUCCESS", "VK_SUBOPTIMAL_KHR"}
           THEN \E k \in Images :
                    /\ images[k] = "free"
                    /\ image_index' = k
                    /\ images' = [images EXCEPT ![k] = "acquired"]
                    /\ acquires' = acquires \cup
                            {[semaphore |-> current_frame, frame |-> frame]}
           ELSE /\ image_index' = 0
                /\ UNCHANGED <<images, acquires>>
    /\ pc' = "reset_cb"
    /\ UNCHANGED <<current_frame, should_close, frame, fence_observed>>
    /\ UNCHANGED <<in_flight_fences, command_buffers, image_available_semaphores,
                   render_finished_semaphores, jobs, presents>>
    /\ UNCHANGED ghostVars
    /\ UNCHANGED startupVars
    /\ UNCHANGED <<logged, destroyed,
                   swapchain_objects, framebuffer_resized, present_result>>

\* vkResetCommandBuffer(*command_buffer, 0), main.cpp:872; resetting a command
\* buffer a pending submission still uses leaves it invalid
ResetCommandBuffer ==
    /\ pc = "reset_cb"
    /\ calls' = Append(calls, "vkResetCommandBuffer")
    /\ command_buffers' = [command_buffers EXCEPT ![current_frame] =
            IF @ = "pending" \/ @ = "invalid" THEN "invalid" ELSE "initial"]
    /\ pc' = "begin"
    /\ UNCHANGED <<current_frame, image_index, should_close, frame, fence_observed>>
    /\ UNCHANGED <<in_flight_fences, image_available_semaphores,
                   render_finished_semaphores, acquires, jobs, presents, images>>
    /\ UNCHANGED ghostVars
    /\ UNCHANGED startupVars
    /\ UNCHANGED <<logged, destroyed,
                   swapchain_objects, framebuffer_resized, present_result,
                   acquire_result>>

\* a loop that logs the failure of vkBeginCommandBuffer and goes on
BeginCommandBuffer_IgnoreResult ==
    /\ pc = "begin"
    /\ calls' = Append(calls, "vkBeginCommandBuffer")
    /\ \/ /\ command_buffers' = [command_buffers EXCEPT ![current_frame] =
                IF @ = "invalid" THEN "invalid" ELSE "recording"]
          /\ UNCHANGED logged
       \/ /\ logged' = "Failed to begin recording command buffer."
          /\ UNCHANGED command_buffers
    /\ pc' = "record"
    /\ UNCHANGED <<current_frame, image_index, should_close, frame, fence_observed>>
    /\ UNCHANGED <<in_flight_fences, image_available_semaphores,
                   render_finished_semaphores, acquires, jobs, presents, images>>
    /\ UNCHANGED ghostVars
    /\ UNCHANGED startupVars
    /\ UNCHANGED <<destroyed, swapchain_objects,
                   framebuffer_resized, present_result,
                   acquire_result>>

\* vkBeginCommandBuffer and the check of its result, main.cpp:879-883
BeginCommandBuffer ==
    /\ pc = "begin"
    /\ calls' = Append(calls, "vkBeginCommandBuffer")
    /\ \/ /\ command_buffers' = [command_buffers EXCEPT ![current_frame] =
                IF @ = "invalid" THEN "invalid" ELSE "recording"]
          /\ pc' = "record"
          /\ UNCHANGED logged
       \/ /\ pc' = "failed"
          /\ logged' = "Failed to begin recording command buffer."
          /\ UNCHANGED command_buffers
    /\ UNCHANGED <<current_frame, image_index, should_close, frame, fence_observed>>
    /\ UNCHANGED <<in_flight_fences, image_available_semaphores,
                   render_finished_semaphores, acquires, jobs, presents, images>>
    /\ UNCHANGED ghostVars
    /\ UNCHANGED startupVars
    /\ UNCHANGED <<destroyed, swapchain_objects,
                   framebuffer_resized, present_result,
                   acquire_result>>

\* the render pass commands, vkEndCommandBuffer and the check of its result,
\* main.cpp:885-906
RecordCommandBuffer ==
    /\ pc = "record"
    /\ calls' = Append(calls, "vkEndCommandBuffer")
    /\ \/ /\ command_buffers' = [command_buffers EXCEPT ![current_frame] =
                IF @ = "invalid" THEN "invalid" ELSE "executable"]
          /\ pc' = "submit"
          /\ UNCHANGED logged
       \/ /\ pc' = "failed"
          /\ logged' = "Failed to record command buffer."
          /\ UNCHANGED command_buffers
    /\ UNCHANGED <<current_frame, image_index, should_close, frame, fence_observed>>
    /\ UNCHANGED <<in_flight_fences, image_available_semaphores,
                   render_finished_semaphores, acquires, jobs, presents, images>>
    /\ UNCHANGED ghostVars
    /\ UNCHANGED startupVars
    /\ UNCHANGED <<destroyed, swapchain_objects,
                   framebuffer_resized, present_result,
                   acquire_result>>

\* a submission that waits on no semaphore
SubmitWaitSemaphores_None(slot) == {}

\* submit_info.pWaitSemaphores = { *image_available_semaphore }, main.cpp:911-915
SubmitWaitSemaphores(slot) == {slot}

\* submit_info.pSignalSemaphores = { *render_finished_semaphore }, main.cpp:920-922
SubmitSignalSemaphores(slot) == {slot}

\* vkQueueSubmit(graphics_queue, 1, &submit_info, *in_flight_fence) and the check
\* of its result, main.cpp:908-927
QueueSubmit ==
    /\ pc = "submit"
    /\ calls' = Append(calls, "vkQueueSubmit")
    /\ \/ /\ jobs' = jobs \cup {[frame |-> frame,
                                 command_buffer |-> current_frame,
                                 wait |-> SubmitWaitSemaphores(current_frame),
                                 signal |-> SubmitSignalSemaphores(current_frame),
                                 fence |-> current_frame,
                                 framebuffer |-> image_index,
                                 stage |-> "queued"]}
          /\ command_buffers' = [command_buffers EXCEPT ![current_frame] =
                IF @ = "invalid" THEN "invalid" ELSE "pending"]
          /\ pc' = "present"
          /\ UNCHANGED logged
       \/ /\ pc' = "failed"
          /\ logged' = "Failed to submit draw command buffer"
          /\ UNCHANGED <<jobs, command_buffers>>
    /\ UNCHANGED <<current_frame, image_index, should_close, frame, fence_observed>>
    /\ UNCHANGED <<in_flight_fences, image_available_semaphores,
                   render_finished_semaphores, acquires, presents, images>>
    /\ UNCHANGED ghostVars
    /\ UNCHANGED startupVars
    /\ UNCHANGED <<destroyed, swapchain_objects,
                   framebuffer_resized, present_result,
                   acquire_result>>

\* a present request that waits on no semaphore
PresentWaitSemaphores_None(slot) == {}

\* present_info.pWaitSemaphores = signal_semaphores, main.cpp:932-933
PresentWaitSemaphores(slot) == {slot}

\* what vkQueuePresentKHR can return: suboptimal or the error out of date only
\* once the framebuffer is no longer of the swap chain's extent
PresentResults ==
    IF framebuffer_resized
    THEN {"VK_SUCCESS", "VK_SUBOPTIMAL_KHR", "VK_ERROR_OUT_OF_DATE_KHR"}
    ELSE {"VK_SUCCESS"}

\* vkQueuePresentKHR(present_queue, &present_info), main.cpp:929-940; the result
\* is not looked at, and the semaphore wait of the request is queued whatever
\* the result
QueuePresent ==
    /\ pc = "present"
    /\ \E result \in PresentResults : present_result' = result
    /\ calls' = Append(calls, "vkQueuePresentKHR")
    /\ presents' = Append(presents, [frame |-> frame,
                                     wait |-> PresentWaitSemaphores(current_frame),
                                     image |-> image_index])
    /\ images' = [images EXCEPT ![image_index] =
            IF @ = "acquired" THEN "queued" ELSE @]
    /\ pc' = "advance"
    /\ UNCHANGED <<current_frame, image_index, should_close, frame, fence_observed>>
    /\ UNCHANGED <<in_flight_fences, command_buffers, image_available_semaphores,
                   render_finished_semaphores, acquires, jobs>>
    /\ UNCHANGED ghostVars
    /\ UNCHANGED startupVars
    /\ UNCHANGED <<logged, destroyed, swapchain_objects, framebuffer_resized,
                   acquire_result>>

\* an advance that stays on the same slot
Advance_SameSlot ==
    /\ pc = "advance"
    /\ calls' = Append(calls, "advance")
    /\ current_frame' = current_frame
    /\ pc' = "loop_test"
    /\ UNCHANGED <<image_index, should_close, frame, fence_observed>>
    /\ UNCHANGED <<in_flight_fences, command_buffers, image_available_semaphores,
                   render_finished_semaphores, acquires, jobs, presents, images>>
    /\ UNCHANGED ghostVars
    /\ UNCHANGED startupVars
    /\ UNCHANGED <<logged, destroyed,
                   swapchain_objects, framebuffer_resized, present_result,
                   acquire_result>>

\* current_frame = (current_frame + 1) % MAX_FRAMES_IN_FLIGHT, main.cpp:942
Advance ==
    /\ pc = "advance"
    /\ calls' = Append(calls, "advance")
    /\ current_frame' = (current_frame + 1) % MAX_FRAMES_IN_FLIGHT
    /\ pc' = "loop_test"
    /\ UNCHANGED <<image_index, should_close, frame, fence_observed>>
    /\ UNCHANGED <<in_flight_fences, command_buffers, image_available_semaphores,
                   render_finished_semaphores, acquires, jobs, presents, images>>
    /\ UNCHANGED ghostVars
    /\ UNCHANGED startupVars
    /\ UNCHANGED <<logged, destroyed,
                   swapchain_objects, framebuffer_resized, present_result,
                   acquire_result>>

\* vkDeviceWaitIdle(device), main.cpp:945: returns once the queues hold no
\* unfinished submission
DeviceWaitIdle ==
    /\ pc = "wait_idle"
    /\ jobs = {}
    /\ pc' = "teardown"
    /\ UNCHANGED <<current_frame, image_index, should_close, frame, fence_observed>>
    /\ UNCHANGED <<in_flight_fences, command_buffers, image_available_semaphores,
                   render_finished_semaphores, acquires, jobs, presents, images>>
    /\ UNCHANGED ghostVars
    /\ UNCHANGED startupVars
    /\ UNCHANGED <<calls, logged, destroyed,
                   swapchain_objects, framebuffer_resized, present_result,
                   acquire_result>>

\* an order that destroys the device before the swap chain
TeardownOrder_DeviceFirst ==
    <<"image_available_semaphores[0]", "render_finished_semaphores[0]",
      "in_flight_fences[0]",
      "image_available_semaphores[1]", "render_finished_semaphores[1]",
      "in_flight_fences[1]",
      "command_pool", "swapchain_framebuffers", "pipeline", "render_pass",
      "pipeline_layout", "swapchain_image_views", "device", "swapchain",
      "surface", "debug_messenger", "instance">>

\* the vkDestroy* calls of main.cpp:947-972 in the order of the code; the
\* loops over the framebuffers and over the image views are one entry each
TeardownOrder ==
    <<"image_available_semaphores[0]", "render_finished_semaphores[0]",
      "in_flight_fences[0]",
      "image_available_semaphores[1]", "render_finished_semaphores[1]",
      "in_flight_fences[1]",
      "command_pool", "swapchain_framebuffers", "pipeline", "render_pass",
      "pipeline_layout", "swapchain_image_views", "swapchain", "device",
      "surface", "debug_messenger", "instance">>

\* the next vkDestroy* call, main.cpp:947-972
Teardown ==
    /\ pc = "teardown"
    /\ Len(destroyed) < Len(TeardownOrder)
    /\ destroyed' = Append(destroyed, TeardownOrder[Len(destroyed) + 1])
    /\ UNCHANGED pc
    /\ UNCHANGED <<current_frame, image_index, should_close, frame, fence_observed>>
    /\ UNCHANGED <<in_flight_fences, command_buffers, image_available_semaphores,
                   render_finished_semaphores, acquires, jobs, presents, images>>
    /\ UNCHANGED ghostVars
    /\ UNCHANGED startupVars
    /\ UNCHANGED <<calls, logged, swapchain_objects, framebuffer_resized,
                   present_result,
                   acquire_result>>

\* glfwDestroyWindow, glfwTerminate and return 0, main.cpp:974-976
ReturnZero ==
    /\ pc = "teardown"
    /\ Len(destroyed) = Len(TeardownOrder)
    /\ pc' = "done"
    /\ UNCHANGED <<current_frame, image_index, should_close, frame, fence_observed>>
    /\ UNCHANGED <<in_flight_fences, command_buffers, image_available_semaphores,
                   render_finished_semaphores, acquires, jobs, presents, images>>
    /\ UNCHANGED ghostVars
    /\ UNCHANGED startupVars
    /\ UNCHANGED <<calls, logged, destroyed, swapchain_objects, framebuffer_resized,
                   present_result,
                   acquire_result>>

\* ------------------------------------------------------------------------
\* The device and the presentation engine, as the calls of the loop drive them
\* ------------------------------------------------------------------------

\* the process is alive: the device still works for it
Running == pc \notin {"failed", "done"}

\* the presentation engine signals the semaphore given to
\* vkAcquireNextImageKHR (main.cpp:870) once the image may be written
ImageAvailable ==
    /\ Running
    /\ \E a \in acquires :
        /\ image_available_semaphores' =
                [image_available_semaphores EXCEPT ![a.semaphore] = TRUE]
        /\ acquires' = acquires \ {a}
        /\ acq_fired' = acq_fired \cup {a.frame}
    /\ UNCHANGED cpuVars
    /\ UNCHANGED startupVars
    /\ UNCHANGED <<calls, logged, destroyed,
                   swapchain_objects, framebuffer_resized, present_result,
                   acquire_result>>
    /\ UNCHANGED <<in_flight_fences, command_buffers, render_finished_semaphores,
                   jobs, presents, images>>
    /\ UNCHANGED <<color_reached, rendered, presented>>

\* a submission of main.cpp:924 passes its semaphore wait (consuming the signal)
\* and enters the color-attachment-output stage, main.cpp:912
JobStart ==
    /\ Running
    /\ \E j \in jobs :
        /\ j.stage = "queued"
        /\ \A s \in j.wait : image_available_semaphores[s]
        /\ image_available_semaphores' =
                [s \in Slots |-> IF s \in j.wait THEN FALSE
                                 ELSE image_available_semaphores[s]]
        /\ jobs' = (jobs \ {j}) \cup {[j EXCEPT !.stage = "executing"]}
        /\ color_reached' = color_reached \cup {j.frame}
    /\ UNCHANGED cpuVars
    /\ UNCHANGED startupVars
    /\ UNCHANGED <<calls, logged, destroyed,
                   swapchain_objects, framebuffer_resized, present_result,
                   acquire_result>>
    /\ UNCHANGED <<in_flight_fences, command_buffers, render_finished_semaphores,
                   acquires, presents, images>>
    /\ UNCHANGED <<acq_fired, rendered, presented>>

\* a submission of main.cpp:924 completes: its signal semaphores and its fence
\* are signaled and its command buffer leaves the pending state
JobComplete ==
    /\ Running
    /\ \E j \in jobs :
        /\ j.stage = "executing"
        /\ render_finished_semaphores' =
                [s \in Slots |-> IF s \in j.signal THEN TRUE
                                 ELSE render_finished_semaphores[s]]
        /\ in_flight_fences' = [in_flight_fences EXCEPT ![j.fence] = TRUE]
        /\ command_buffers' = [command_buffers EXCEPT ![j.command_buffer] =
                IF @ = "pending" THEN "executable" ELSE @]
        /\ jobs' = jobs \ {j}
        /\ rendered' = rendered \cup {j.frame}
    /\ UNCHANGED cpuVars
    /\ UNCHANGED startupVars
    /\ UNCHANGED <<calls, logged, destroyed,
                   swapchain_objects, framebuffer_resized, present_result,
                   acquire_result>>
    /\ UNCHANGED <<image_available_semaphores, acquires, presents, images>>
    /\ UNCHANGED <<acq_fired, color_reached, presented>>

\* the oldest present request of main.cpp:940 executes: it passes its semaphore
\* wait (consuming the signal) and the image goes back to the presentation engine
PresentExecute ==
    /\ Running
    /\ presents # <<>>
    /\ LET p == Head(presents) IN
        /\ \A s \in p.wait : render_finished_semaphores[s]
        /\ render_finished_semaphores' =
                [s \in Slots |-> IF s \in p.wait THEN FALSE
                                 ELSE render_finished_semaphores[s]]
        /\ images' = [images EXCEPT ![p.image] = IF @ = "queued" THEN "free" ELSE @]
        /\ presented' = presented \cup {p.frame}
    /\ presents' = Tail(presents)
    /\ UNCHANGED cpuVars
    /\ UNCHANGED startupVars
    /\ UNCHANGED <<calls, logged, destroyed,
                   swapchain_objects, framebuffer_resized, present_result,
                   acquire_result>>
    /\ UNCHANGED <<in_flight_fences, command_buffers, image_available_semaphores,
                   acquires, jobs>>
    /\ UNCHANGED <<acq_fired, color_reached, rendered>>

\* ------------------------------------------------------------------------
\* Physical device selection (main.cpp:135-299, 746-762)
\* ------------------------------------------------------------------------

\* the queue family lists the devices of the model report: per family whether
\* it has VK_QUEUE_GRAPHICS_BIT and whether it can present to the surface
QueueFamilyLists ==
    { <<>>,
      <<[graphics |-> TRUE, present |-> FALSE]>>,
      <<[graphics |-> FALSE, present |-> TRUE]>>,
      <<[graphics |-> TRUE, present |-> TRUE]>>,
      <<[graphics |-> FALSE, present |-> TRUE], [graphics |-> TRUE, present |-> FALSE]>>,
      <<[graphics |-> FALSE, present |-> FALSE], [graphics |-> TRUE, present |-> TRUE]>> }

\* the surface format lists and present mode lists the devices of the model report
FormatLists == { <<>>, <<[format |-> "B8G8R8A8_SRGB", colorSpace |-> "SRGB_NONLINEAR"]>> }

PresentModeLists == { <<>>, <<"FIFO">> }

Devices ==
    [queue_families : QueueFamilyLists,
     formats : FormatLists,
     present_modes : PresentModeLists,
     deviceType : {"INTEGRATED_GPU", "DISCRETE_GPU"}]

\* number of physical devices vkEnumeratePhysicalDevices reports at most
MaxDevices == 2

DeviceLists == UNION {[1 .. n -> Devices] : n \in 0 .. MaxDevices}

\* std::numeric_limits<int>::min(), main.cpp:289
INT_MIN == 0 - INT_MAX - 1

\* a scan that records the last family with the capability
RECURSIVE ScanQueueFamilies_Last(_, _, _)
ScanQueueFamilies_Last(queue_families, i, indices) ==
    IF i >= Len(queue_families) THEN indices
    ELSE LET family == queue_families[i + 1]
             g == IF family.graphics THEN {i} ELSE indices.graphics_family
             p == IF family.present THEN {i} ELSE indices.present_family
         IN ScanQueueFamilies_Last(queue_families, i + 1,
                                   [graphics_family |-> g, present_family |-> p])

\* the loop body of find_queue_families, main.cpp:153-164, from family i on
RECURSIVE ScanQueueFamilies(_, _, _)
ScanQueueFamilies(queue_families, i, indices) ==
    IF i >= Len(queue_families) THEN indices
    ELSE LET family == queue_families[i + 1]
             g == IF family.graphics /\ indices.graphics_family = nullopt
                  THEN {i} ELSE indices.graphics_family
             p == IF family.present /\ indices.present_family = nullopt
                  THEN {i} ELSE indices.present_family
         IN ScanQueueFamilies(queue_families, i + 1,
                              [graphics_family |-> g, present_family |-> p])

\* find_queue_families, main.cpp:144-167
find_queue_families(physdev) ==
    ScanQueueFamilies(physdev.queue_families, 0,
                      [graphics_family |-> nullopt, present_family |-> nullopt])

\* queue_family_indices::is_complete, main.cpp:139-141
is_complete(indices) ==
    indices.graphics_family # nullopt /\ indices.present_family # nullopt

\* get_swapchain_details, main.cpp:219-240 (the lists; the capabilities are not
\* read during selection)
get_swapchain_details(physdev) ==
    [formats |-> physdev.formats, present_modes |-> physdev.present_modes]

\* swapchain_support_details::is_adequate, main.cpp:174-176
is_adequate(details) == details.formats # <<>> /\ details.present_modes # <<>>

\* a rating that skips the swap chain support check
rate_physical_device_NoSwapchainCheck(physdev) ==
    IF ~is_complete(find_queue_families(physdev)) THEN -1
    ELSE IF physdev.deviceType = "DISCRETE_GPU" THEN 100 ELSE 0

\* rate_physical_device, main.cpp:258-279
rate_physical_device(physdev) ==
    IF ~is_complete(find_queue_families(physdev)) THEN -1
    ELSE IF ~is_adequate(get_swapchain_details(physdev)) THEN -1
    ELSE IF physdev.deviceType = "DISCRETE_GPU" THEN 0 + 100 ELSE 0

\* a comparison that also replaces the best device on an equal score
IsBetter_OrEqual(score, highest) == score >= highest

\* if (score > highest_score), main.cpp:292
IsBetter(score, highest) == score > highest

SelectInit ==
    /\ physical_devices \in DeviceLists
    /\ sel_pc = "find_loop"
    /\ dev_i = 0
    /\ best_device = 0
    /\ highest_score = INT_MIN
    /\ physdev_indices = [graphics_family |-> nullopt, present_family |-> nullopt]
    /\ queue_create_infos = <<>>

\* one pass of for (VkPhysicalDevice physdev : physical_devices), main.cpp:290-296
RatePhysicalDevice ==
    /\ sel_pc = "find_loop"
    /\ dev_i < Len(physical_devices)
    /\ LET score == rate_physical_device(physical_devices[dev_i + 1]) IN
        IF IsBetter(score, highest_score)
        THEN /\ highest_score' = score
             /\ best_device' = dev_i + 1
        ELSE UNCHANGED <<highest_score, best_device>>
    /\ dev_i' = dev_i + 1
    /\ UNCHANGED <<physical_devices, sel_pc, physdev_indices, queue_create_infos>>
    /\ UNCHANGED swapVars
    /\ UNCHANGED <<loopVars, bootVars>>

\* return best_device, main.cpp:298, and if (!physdev) return 1, main.cpp:746-750
FindPhysicalDeviceReturn ==
    /\ sel_pc = "find_loop"
    /\ dev_i = Len(physical_devices)
    /\ sel_pc' = IF best_device = 0 THEN "exit1" ELSE "selected"
    /\ UNCHANGED <<physical_devices, dev_i, best_device, highest_score, physdev_indices,
                   queue_create_infos>>
    /\ UNCHANGED swapVars
    /\ UNCHANGED <<loopVars, bootVars>>

\* find_queue_families for the selected device and the value() calls on its
\* optionals, main.cpp:758-762; value() of an empty optional throws, and
\* nothing catches
QuerySelectedDevice ==
    /\ sel_pc = "selected"
    /\ physdev_indices' = find_queue_families(physical_devices[best_device])
    /\ sel_pc' = IF is_complete(physdev_indices') THEN "create_device" ELSE "terminated"
    /\ UNCHANGED <<physical_devices, dev_i, best_device, highest_score,
                   queue_create_infos>>
    /\ UNCHANGED swapVars
    /\ UNCHANGED <<loopVars, bootVars>>

\* a device creation that requests one queue for the graphics family and one
\* for the present family, equal or not
device_queue_create_infos_PerRole(indices) ==
    LET g == CHOOSE i \in indices.graphics_family : TRUE
        q == CHOOSE i \in indices.present_family : TRUE
    IN <<[queueFamilyIndex |-> g, queueCount |-> 1],
         [queueFamilyIndex |-> q, queueCount |-> 1]>>

\* std::set<uint32_t> unique_queue_families = { graphics_family.value(),
\* present_family.value() }, main.cpp:304
unique_queue_families(indices) == indices.graphics_family \cup indices.present_family

\* the loop of main.cpp:307-314 over the set, in ascending order
RECURSIVE QueueCreateInfosOf(_)
QueueCreateInfosOf(families) ==
    IF families = {} THEN <<>>
    ELSE LET first == CHOOSE i \in families : \A k \in families : i <= k
         IN <<[queueFamilyIndex |-> first, queueCount |-> 1]>>
                \o QueueCreateInfosOf(families \ {first})

\* queue_create_infos of create_device, main.cpp:302-314
device_queue_create_infos(indices) == QueueCreateInfosOf(unique_queue_families(indices))

\* create_device up to the filling of queue_create_infos, main.cpp:301-314, 764
CreateDeviceQueueInfos ==
    /\ sel_pc = "create_device"
    /\ queue_create_infos' = device_queue_create_infos(physdev_indices)
    /\ sel_pc' = "device_created"
    /\ UNCHANGED <<physical_devices, dev_i, best_device, highest_score, physdev_indices>>
    /\ UNCHANGED swapVars
    /\ UNCHANGED <<loopVars, bootVars>>

SelectNext ==
    \/ RatePhysicalDevice
    \/ FindPhysicalDeviceReturn
    \/ QuerySelectedDevice
    \/ CreateDeviceQueueInfos

InitSelect == LoopState("startup") /\ SelectInit /\ SwapchainIdle /\ StartupIdle

SpecSelect == InitSelect /\ [][SelectNext]_vars

\* ------------------------------------------------------------------------
\* Properties of device selection
\* ------------------------------------------------------------------------

\* find_physical_device has returned
Selected == sel_pc \in {"exit1", "selected", "create_device", "terminated",
                       "device_created"}

\* a device with a graphics family, a family that can present, at least one
\* surface format and at least one present mode
Eligible(d) ==
    /\ \E n \in 1 .. Len(d.queue_families) : d.queue_families[n].graphics
    /\ \E n \in 1 .. Len(d.queue_families) : d.queue_families[n].present
    /\ Len(d.formats) > 0
    /\ Len(d.present_modes) > 0

DeviceIndices == 1 .. Len(physical_devices)

\* C5: whenever no enumerated device is eligible (the list is empty or every
\* device scores -1), find_physical_device returns null and main exits with
\* status 1; no ineligible device is ever returned as the selected device.
C5_NoEligibleDeviceFails ==
    Selected =>
        /\ (\A k \in DeviceIndices : ~Eligible(physical_devices[k]))
                => (best_device = 0 /\ sel_pc = "exit1")
        /\ best_device # 0 => Eligible(physical_devices[best_device])

\* C6: every device whose queue family mapping is incomplete or whose swap
\* chain support is inadequate is rated -1, and whenever the list holds an
\* eligible device the device find_physical_device returns is an eligible one.
C6_IneligibleRatedMinusOne ==
    /\ \A k \in 1 .. dev_i :
            ~Eligible(physical_devices[k])
                => rate_physical_device(physical_devices[k]) = -1
    /\ Selected =>
            ((\E k \in DeviceIndices : Eligible(physical_devices[k]))
                => (best_device # 0 /\ Eligible(physical_devices[best_device])))

\* an ineligible device enumerated before an eligible one, the eligible one returned
C6_Witness ==
    /\ Selected
    /\ Len(physical_devices) = 2
    /\ ~Eligible(physical_devices[1])
    /\ physical_devices[1].queue_families # <<>>
    /\ Eligible(physical_devices[2])
    /\ best_device = 2

\* the score the specification gives a device
SpecScore(d) ==
    IF ~Eligible(d) THEN -1 ELSE IF d.deviceType = "DISCRETE_GPU" THEN 100 ELSE 0

\* C7: the selected device has the maximum score of the list (eligible
\* non-discrete 0, eligible discrete 100), and among the devices with the
\* maximum score the earliest in enumeration order is selected.
C7_MaxScoreFirstWins ==
    (Selected /\ physical_devices # <<>>) =>
        /\ best_device \in DeviceIndices
        /\ highest_score = SpecScore(physical_devices[best_device])
        /\ \A k \in DeviceIndices :
                SpecScore(physical_devices[k]) <= highest_score
        /\ \A k \in 1 .. (best_device - 1) :
                SpecScore(physical_devices[k]) < highest_score

\* an eligible integrated device enumerated before an eligible discrete one,
\* the discrete one returned
C7_Witness ==
    /\ Selected
    /\ Len(physical_devices) = 2
    /\ Eligible(physical_devices[1])
    /\ physical_devices[1].deviceType = "INTEGRATED_GPU"
    /\ Eligible(physical_devices[2])
    /\ physical_devices[2].deviceType = "DISCRETE_GPU"
    /\ best_device = 2

\* C24: create_device is reached only with both family indices of the
\* selected device resolved, and it requests one queue for each distinct index
\* among the graphics and the present family: one request when the two are
\* equal, two when they differ.
C24_OneQueuePerDistinctFamily ==
    /\ sel_pc \in {"create_device", "device_created"} =>
            /\ best_device \in DeviceIndices
            /\ physdev_indices = find_queue_families(physical_devices[best_device])
            /\ is_complete(physdev_indices)
    /\ sel_pc = "device_created" =>
            LET g == CHOOSE i \in physdev_indices.graphics_family : TRUE
                q == CHOOSE i \in physdev_indices.present_family : TRUE
            IN /\ Len(queue_create_infos) = IF g = q THEN 1 ELSE 2
               /\ {queue_create_infos[n].queueFamilyIndex :
                        n \in DOMAIN queue_create_infos} = {g, q}
               /\ \A n \in DOMAIN queue_create_infos :
                        queue_create_infos[n].queueCount = 1
    /\ sel_pc \notin {"create_device", "device_created"} => queue_create_infos = <<>>

\* graphics family 1 and present family 0: two requests, for families 0 and 1
C24_Witness ==
    /\ sel_pc = "device_created"
    /\ physdev_indices = [graphics_family |-> {1}, present_family |-> {0}]
    /\ queue_create_infos = <<[queueFamilyIndex |-> 0, queueCount |-> 1],
                              [queueFamilyIndex |-> 1, queueCount |-> 1]>>

\* ------------------------------------------------------------------------
\* Swap chain creation (main.cpp:169-217, 353-400, 776-780)
\* ------------------------------------------------------------------------

\* conversion to uint32_t, and uint32_t arithmetic: modulo 2^width
ToUint32(x) == x % UintModulus

\* largest small extent component and framebuffer dimension the model draws
MaxDim == 2

\* largest small image count the model draws
MaxCount == 3

\* uint32_t values of extent components: small ones and the largest
DimSamples == (0 .. MaxDim) \cup {UINT32_MAX}

\* int values glfwGetFramebufferSize writes: small ones and the largest
FramebufferSamples == (0 .. MaxDim) \cup {INT_MAX}

\* uint32_t values of image counts: small ones and the two largest
CountSamples == (0 .. MaxCount) \cup {UINT32_MAX - 1, UINT32_MAX}

Extents == [width : DimSamples, height : DimSamples]

\* the capabilities that vary the image counts freely
CountCapabilities ==
    [minImageCount : CountSamples,
     maxImageCount : CountSamples,
     currentExtent : {[width |-> 1, height |-> 1]},
     minImageExtent : {[width |-> 1, height |-> 1]},
     maxImageExtent : {[width |-> 1, height |-> 1]}]

\* the capabilities that vary the extents; a surface reports
\* minImageExtent <= maxImageExtent in both components
ExtentCapabilities ==
    { c \in [minImageCount : {2},
             maxImageCount : {0},
             currentExtent : Extents,
             minImageExtent : Extents,
             maxImageExtent : Extents] :
        /\ c.minImageExtent.width <= c.maxImageExtent.width
        /\ c.minImageExtent.height <= c.maxImageExtent.height }

\* a search that compares the pixel format and forgets the color space
RECURSIVE FindSurfaceFormat_FormatOnly(_, _)
FindSurfaceFormat_FormatOnly(formats, n) ==
    IF n > Len(formats) THEN formats[1]
    ELSE IF formats[n].format = "B8G8R8A8_SRGB" THEN formats[n]
         ELSE FindSurfaceFormat_FormatOnly(formats, n + 1)

\* swapchain_support_details::get_surface_format, main.cpp:178-186
RECURSIVE FindSurfaceFormat(_, _)
FindSurfaceFormat(formats, n) ==
    IF n > Len(formats) THEN formats[1]
    ELSE IF formats[n].format = "B8G8R8A8_SRGB" /\ formats[n].colorSpace = "SRGB_NONLINEAR"
         THEN formats[n]
         ELSE FindSurfaceFormat(formats, n + 1)

get_surface_format(details) == FindSurfaceFormat(details.formats, 1)

\* a search that returns the first mode of the list
FindPresentMode_FirstEntry(present_modes, n) == present_modes[1]

\* swapchain_support_details::get_present_mode, main.cpp:188-196
RECURSIVE FindPresentMode(_, _)
FindPresentMode(present_modes, n) ==
    IF n > Len(present_modes) THEN "FIFO"
    ELSE IF present_modes[n] = "MAILBOX" THEN present_modes[n]
         ELSE FindPresentMode(present_modes, n + 1)

get_present_mode(details) == FindPresentMode(details.present_modes, 1)

\* a clamp that forgets the lower bound
clamp_NoLower(v, lo, hi) == IF hi < v THEN hi ELSE v

\* std::clamp(v, lo, hi), main.cpp:211-212
clamp(v, lo, hi) == IF v < lo THEN lo ELSE IF hi < v THEN hi ELSE v

\* an extent that is always derived from the framebuffer size
get_extent_AlwaysFramebuffer(details, size) ==
    LET capabilities == details.capabilities IN
    [width |-> clamp(ToUint32(size.width), capabilities.minImageExtent.width,
                     capabilities.maxImageExtent.width),
     height |-> clamp(ToUint32(size.height), capabilities.minImageExtent.height,
                      capabilities.maxImageExtent.height)]

\* swapchain_support_details::get_extent, main.cpp:198-216; size is what
\* glfwGetFramebufferSize writes
get_extent(details, size) ==
    LET capabilities == details.capabilities IN
    IF capabilities.currentExtent.width # UINT32_MAX
    THEN capabilities.currentExtent
    ELSE [width |-> clamp(ToUint32(size.width), capabilities.minImageExtent.width,
                          capabilities.maxImageExtent.width),
          height |-> clamp(ToUint32(size.height), capabilities.minImageExtent.height,
                           capabilities.maxImageExtent.height)]

\* an image count that is never capped by maxImageCount
image_count_NoCap(capabilities) == ToUint32(capabilities.minImageCount + 1)

\* the image count of create_swapchain, main.cpp:358-361
image_count(capabilities) ==
    LET preferred == ToUint32(capabilities.minImageCount + 1) IN
    IF capabilities.maxImageCount > 0 /\ preferred > capabilities.maxImageCount
    THEN capabilities.maxImageCount
    ELSE preferred

\* a swap chain that is always exclusive to one queue family
sharing_AlwaysExclusive(indices) ==
    [imageSharingMode |-> "EXCLUSIVE", queueFamilyIndexCount |-> 0,
     pQueueFamilyIndices |-> <<>>]

\* the sharing mode of create_swapchain, main.cpp:373-384
sharing(indices) ==
    LET graphics == CHOOSE g \in indices.graphics_family : TRUE
        present == CHOOSE q \in indices.present_family : TRUE
    IN IF graphics # present
       THEN [imageSharingMode |-> "CONCURRENT", queueFamilyIndexCount |-> 2,
             pQueueFamilyIndices |-> <<graphics, present>>]
       ELSE [imageSharingMode |-> "EXCLUSIVE", queueFamilyIndexCount |-> 0,
             pQueueFamilyIndices |-> <<>>]

\* longest surface format list and present mode list the model draws
MaxListLen == 3

\* largest queue family index the model draws
MaxFamilyIndex == 2

\* the surface formats the lists of the model hold: the preferred one, one with
\* another pixel format and one with another color space
SurfaceFormats ==
    { [format |-> "B8G8R8A8_SRGB", colorSpace |-> "SRGB_NONLINEAR"],
      [format |-> "R8G8B8A8_UNORM", colorSpace |-> "SRGB_NONLINEAR"],
      [format |-> "B8G8R8A8_SRGB", colorSpace |-> "DISPLAY_P3_NONLINEAR"] }

\* the present modes the lists of the model hold
PresentModes == {"FIFO", "MAILBOX", "IMMEDIATE"}

\* the non-empty lists over a set, up to MaxListLen long
ListsOf(S) == UNION {[1 .. n -> S] : n \in 1 .. MaxListLen}

DefaultFormats == <<[format |-> "B8G8R8A8_SRGB", colorSpace |-> "SRGB_NONLINEAR"]>>

DefaultPresentModes == <<"FIFO">>

DefaultSize == [width |-> 1, height |-> 1]

DefaultIndices == [graphics_family |-> {0}, present_family |-> {0}]

DefaultCapabilities ==
    [minImageCount |-> 2, maxImageCount |-> 0,
     currentExtent |-> [width |-> 1, height |-> 1],
     minImageExtent |-> [width |-> 1, height |-> 1],
     maxImageExtent |-> [width |-> 1, height |-> 1]]

\* what create_swapchain is called with, main.cpp:776: each group of inputs is
\* varied with the others at their defaults
SwapchainInputs ==
    [details : [capabilities : CountCapabilities,
                formats : {DefaultFormats}, present_modes : {DefaultPresentModes}],
     size : {DefaultSize}, indices : {DefaultIndices}]
    \cup
    [details : [capabilities : ExtentCapabilities,
                formats : {DefaultFormats}, present_modes : {DefaultPresentModes}],
     size : [width : FramebufferSamples, height : FramebufferSamples],
     indices : {DefaultIndices}]
    \cup
    [details : [capabilities : {DefaultCapabilities},
                formats : ListsOf(SurfaceFormats), present_modes : {DefaultPresentModes}],
     size : {DefaultSize}, indices : {DefaultIndices}]
    \cup
    [details : [capabilities : {DefaultCapabilities},
                formats : {DefaultFormats}, present_modes : ListsOf(PresentModes)],
     size : {DefaultSize}, indices : {DefaultIndices}]
    \cup
    [details : [capabilities : {DefaultCapabilities},
                formats : {DefaultFormats}, present_modes : {DefaultPresentModes}],
     size : {DefaultSize},
     indices : [graphics_family : {{g} : g \in 0 .. MaxFamilyIndex},
                present_family : {{q} : q \in 0 .. MaxFamilyIndex}]]

SwapchainInit ==
    /\ \E input \in SwapchainInputs :
        /\ swapchain_details = input.details
        /\ framebuffer_size = input.size
        /\ physdev_indices = input.indices
    /\ queue_create_infos = <<>>
    /\ swap_pc = "create_swapchain"
    /\ create_info = <<>>
    /\ main_choice = <<>>
    /\ physical_devices = <<>>
    /\ sel_pc = "create_device"
    /\ dev_i = 0
    /\ best_device = 0
    /\ highest_score = 0

\* create_swapchain, main.cpp:353-400, and the check of its result, main.cpp:776-780
CreateSwapchain ==
    /\ swap_pc = "create_swapchain"
    /\ LET surface_format == get_surface_format(swapchain_details)
           share == sharing(physdev_indices)
       IN create_info' =
            [minImageCount |-> image_count(swapchain_details.capabilities),
             imageFormat |-> surface_format.format,
             imageColorSpace |-> surface_format.colorSpace,
             imageExtent |-> get_extent(swapchain_details, framebuffer_size),
             imageSharingMode |-> share.imageSharingMode,
             queueFamilyIndexCount |-> share.queueFamilyIndexCount,
             pQueueFamilyIndices |-> share.pQueueFamilyIndices,
             presentMode |-> get_present_mode(swapchain_details)]
    /\ \E result \in {"VK_SUCCESS", "VK_ERROR"} :
            swap_pc' = IF result = "VK_SUCCESS" THEN "created" ELSE "exit1"
    /\ UNCHANGED <<swapchain_details, framebuffer_size, main_choice>>
    /\ UNCHANGED selVars
    /\ UNCHANGED <<loopVars, bootVars>>

\* what the second glfwGetFramebufferSize of main.cpp:204 can write: get_extent
\* reads the window only when the current extent is the sentinel
SecondFramebufferSizes ==
    IF swapchain_details.capabilities.currentExtent.width # UINT32_MAX
    THEN {framebuffer_size}
    ELSE [width : FramebufferSamples, height : FramebufferSamples]

\* the attachment format of create_render_pass, main.cpp:488
render_pass_format(details) == get_surface_format(details).format

\* main asks the details again for the format, the present mode and the extent,
\* main.cpp:788-790, which reads the framebuffer size of the window again, and
\* hands the details to create_render_pass, main.cpp:804
MainChoose ==
    /\ swap_pc = "created"
    /\ \E size \in SecondFramebufferSizes :
        main_choice' = [surface_format |-> get_surface_format(swapchain_details),
                        present_mode |-> get_present_mode(swapchain_details),
                        extent |-> get_extent(swapchain_details, size),
                        render_pass_format |-> render_pass_format(swapchain_details)]
    /\ swap_pc' = "image_views"
    /\ UNCHANGED <<swapchain_details, framebuffer_size, create_info>>
    /\ UNCHANGED selVars
    /\ UNCHANGED <<loopVars, bootVars>>

SwapchainNext ==
    \/ CreateSwapchain
    \/ MainChoose

InitSwapchain == LoopState("startup") /\ SwapchainInit /\ StartupIdle

SpecSwapchain == InitSwapchain /\ [][SwapchainNext]_vars

\* ------------------------------------------------------------------------
\* Properties of swap chain creation
\* ------------------------------------------------------------------------

\* create_swapchain has filled the create info
InfoFilled == swap_pc \in {"created", "exit1", "image_views"}

Caps == swapchain_details.capabilities

\* main has asked the details again, main.cpp:788-790
MainChosen == swap_pc = "image_views"

\* C8 as stated: for all 32-bit values of minImageCount and maxImageCount the
\* image count of create_swapchain is at least minImageCount and, when
\* maxImageCount is not 0, at most maxImageCount.
C8_ImageCountWithinCapabilities ==
    InfoFilled =>
        /\ Caps.minImageCount <= create_info.minImageCount
        /\ (Caps.maxImageCount = 0 \/ create_info.minImageCount <= Caps.maxImageCount)

\* C8 as amended: the image count is at most maxImageCount whenever
\* maxImageCount is not 0, and it is at least minImageCount whenever
\* minImageCount + 1 does not wrap and minImageCount does not exceed a non-zero
\* maxImageCount; when minImageCount is the largest uint32_t the count wraps to 0.
C8_ImageCountAmended ==
    InfoFilled =>
        /\ (Caps.maxImageCount = 0 \/ create_info.minImageCount <= Caps.maxImageCount)
        /\ (/\ Caps.minImageCount < UINT32_MAX
            /\ (Caps.maxImageCount = 0 \/ Caps.minImageCount <= Caps.maxImageCount))
                => Caps.minImageCount <= create_info.minImageCount
        /\ Caps.minImageCount = UINT32_MAX => create_info.minImageCount = 0

\* minImageCount = maxImageCount = 2: the count is capped from 3 to 2
C8_Witness ==
    /\ InfoFilled
    /\ Caps.minImageCount = 2
    /\ Caps.maxImageCount = 2
    /\ create_info.minImageCount = 2

\* C9: when the current extent is not the sentinel (its width is not the largest
\* uint32_t) the extent of the swap chain is exactly capabilities.currentExtent,
\* whatever the framebuffer size and the minimum and maximum extents are.
C9_FixedExtentVerbatim ==
    (InfoFilled /\ Caps.currentExtent.width # UINT32_MAX)
        => create_info.imageExtent = Caps.currentExtent

\* a fixed current extent that differs from the framebuffer size and lies
\* outside the minimum and maximum extents
C9_Witness ==
    /\ InfoFilled
    /\ Caps.currentExtent = [width |-> 2, height |-> 0]
    /\ framebuffer_size = [width |-> 1, height |-> 1]
    /\ Caps.minImageExtent = [width |-> 0, height |-> 1]
    /\ Caps.maxImageExtent = [width |-> 1, height |-> 1]
    /\ create_info.imageExtent = [width |-> 2, height |-> 0]

\* v clamped into lo .. hi, as the specification words it
ClampedInto(r, v, lo, hi) ==
    /\ lo <= r /\ r <= hi
    /\ (lo <= v /\ v <= hi) => r = v
    /\ v < lo => r = lo
    /\ v > hi => r = hi

\* C10: when the current extent is the sentinel the extent of the swap chain is
\* the framebuffer size clamped component-wise into the minimum and maximum
\* extents: each component lies in the range, a component already in range is
\* returned unchanged, and clamping the result again changes nothing.
C10_AdaptiveExtentClamped ==
    (InfoFilled /\ Caps.currentExtent.width = UINT32_MAX) =>
        /\ ClampedInto(create_info.imageExtent.width, framebuffer_size.width,
                       Caps.minImageExtent.width, Caps.maxImageExtent.width)
        /\ ClampedInto(create_info.imageExtent.height, framebuffer_size.height,
                       Caps.minImageExtent.height, Caps.maxImageExtent.height)
        /\ ClampedInto(create_info.imageExtent.width, create_info.imageExtent.width,
                       Caps.minImageExtent.width, Caps.maxImageExtent.width)
        /\ ClampedInto(create_info.imageExtent.height, create_info.imageExtent.height,
                       Caps.minImageExtent.height, Caps.maxImageExtent.height)

\* the sentinel extent with a framebuffer too narrow and too high: the width is
\* raised to the minimum and the height lowered to the maximum
C10_Witness ==
    /\ InfoFilled
    /\ Caps.currentExtent.width = UINT32_MAX
    /\ framebuffer_size = [width |-> 0, height |-> INT_MAX]
    /\ Caps.minImageExtent = [width |-> 1, height |-> 0]
    /\ Caps.maxImageExtent = [width |-> 2, height |-> 2]
    /\ create_info.imageExtent = [width |-> 1, height |-> 2]

\* the elements of a list
Range(list) == {list[n] : n \in 1 .. Len(list)}

PreferredFormat == [format |-> "B8G8R8A8_SRGB", colorSpace |-> "SRGB_NONLINEAR"]

\* the surface format the swap chain is created with
ChosenFormat == [format |-> create_info.imageFormat,
                 colorSpace |-> create_info.imageColorSpace]

\* C11: for every non-empty format list the format chosen is the entry
\* (B8G8R8A8_SRGB, SRGB_NONLINEAR) whenever the list holds it, at whatever
\* position, and the first entry of the list otherwise; main's second call on
\* the same list returns the same format.
C11_SurfaceFormatChoice ==
    /\ InfoFilled =>
            IF PreferredFormat \in Range(swapchain_details.formats)
            THEN ChosenFormat = PreferredFormat
            ELSE ChosenFormat = swapchain_details.formats[1]
    /\ MainChosen => main_choice.surface_format = ChosenFormat

\* the preferred format is the last of three entries, behind an entry with its
\* pixel format and another color space, and both calls chose it
C11_Witness ==
    /\ MainChosen
    /\ Len(swapchain_details.formats) = 3
    /\ swapchain_details.formats[1].colorSpace = "DISPLAY_P3_NONLINEAR"
    /\ swapchain_details.formats[3] = PreferredFormat
    /\ swapchain_details.formats[2] # PreferredFormat
    /\ ChosenFormat = PreferredFormat

\* C12 as stated: for every non-empty present mode list the mode chosen is
\* MAILBOX when the list holds MAILBOX and FIFO otherwise, and the mode chosen
\* is always a member of the list.
C12_PresentModeAvailable ==
    InfoFilled =>
        /\ create_info.presentMode =
                IF "MAILBOX" \in Range(swapchain_details.present_modes)
                THEN "MAILBOX" ELSE "FIFO"
        /\ create_info.presentMode \in Range(swapchain_details.present_modes)

\* C12 as amended: the mode chosen is MAILBOX when the list holds MAILBOX and
\* FIFO otherwise; it is a member of the list whenever the list holds MAILBOX
\* or FIFO.
C12_PresentModeAmended ==
    InfoFilled =>
        /\ create_info.presentMode =
                IF "MAILBOX" \in Range(swapchain_details.present_modes)
                THEN "MAILBOX" ELSE "FIFO"
        /\ ({"MAILBOX", "FIFO"} \cap Range(swapchain_details.present_modes) # {})
                => create_info.presentMode \in Range(swapchain_details.present_modes)

\* MAILBOX behind two other modes is chosen
C12_Witness ==
    /\ InfoFilled
    /\ swapchain_details.present_modes = <<"IMMEDIATE", "FIFO", "MAILBOX">>
    /\ create_info.presentMode = "MAILBOX"

\* the family indices create_swapchain is called with
GraphicsFamily == CHOOSE g \in physdev_indices.graphics_family : TRUE

PresentFamily == CHOOSE q \in physdev_indices.present_family : TRUE

\* C13: for every pair of graphics and present family indices the sharing mode
\* is CONCURRENT with exactly the two indices attached when they differ, and
\* EXCLUSIVE with no index attached when they are equal.
C13_SharingMode ==
    InfoFilled =>
        IF GraphicsFamily # PresentFamily
        THEN /\ create_info.imageSharingMode = "CONCURRENT"
             /\ create_info.queueFamilyIndexCount = 2
             /\ create_info.pQueueFamilyIndices = <<GraphicsFamily, PresentFamily>>
        ELSE /\ create_info.imageSharingMode = "EXCLUSIVE"
             /\ create_info.queueFamilyIndexCount = 0
             /\ create_info.pQueueFamilyIndices = <<>>

\* graphics family 2 and present family 0: concurrent sharing of both
C13_Witness ==
    /\ InfoFilled
    /\ GraphicsFamily = 2
    /\ PresentFamily = 0
    /\ create_info.imageSharingMode = "CONCURRENT"
    /\ create_info.pQueueFamilyIndices = <<2, 0>>

\* C26: the extent and the format of the derived resources equal those of the
\* swap chain: the extent main computes at main.cpp:790 (pipeline viewport and
\* scissor, framebuffers, render area) is the imageExtent of create_swapchain,
\* and the format of the render pass is the imageFormat of create_swapchain,
\* whatever the capabilities and whatever the window reports as its framebuffer
\* size at the second computation.
C26_DerivedMatchSwapchain ==
    MainChosen =>
        /\ main_choice.extent = create_info.imageExtent
        /\ main_choice.render_pass_format = create_info.imageFormat

\* ------------------------------------------------------------------------
\* find_queue_families on its own (main.cpp:144-167)
\* ------------------------------------------------------------------------

\* what vkGetPhysicalDeviceQueueFamilyProperties and
\* vkGetPhysicalDeviceSurfaceSupportKHR report: every list of families with
\* indices up to MaxFamilyIndex
FamilyLists ==
    UNION {[1 .. n -> [graphics : BOOLEAN, present : BOOLEAN]] :
                n \in 0 .. (MaxFamilyIndex + 1)}

FamiliesInit ==
    /\ \E families \in FamilyLists :
            physical_devices = <<[queue_families |-> families,
                                  formats |-> <<>>,
                                  present_modes |-> <<>>,
                                  deviceType |-> "DISCRETE_GPU"]>>
    /\ sel_pc = "find_queue_families"
    /\ dev_i = 0
    /\ best_device = 1
    /\ highest_score = 0
    /\ physdev_indices = [graphics_family |-> nullopt, present_family |-> nullopt]
    /\ queue_create_infos = <<>>

\* queue_family_indices physdev_indices = find_queue_families(physdev, surface),
\* main.cpp:758
FindQueueFamiliesCall ==
    /\ sel_pc = "find_queue_families"
    /\ physdev_indices' = find_queue_families(physical_devices[best_device])
    /\ sel_pc' = "families_found"
    /\ UNCHANGED <<physical_devices, dev_i, best_device, highest_score,
                   queue_create_infos>>
    /\ UNCHANGED swapVars
    /\ UNCHANGED <<loopVars, bootVars>>

InitFamilies == LoopState("startup") /\ FamiliesInit /\ SwapchainIdle /\ StartupIdle

SpecFamilies == InitFamilies /\ [][FindQueueFamiliesCall]_vars

\* the indices of the families of the device that have a capability
GraphicsFamilies ==
    {i \in 0 .. (Len(physical_devices[1].queue_families) - 1) :
            physical_devices[1].queue_families[i + 1].graphics}

PresentFamilies ==
    {i \in 0 .. (Len(physical_devices[1].queue_families) - 1) :
            physical_devices[1].queue_families[i + 1].present}

Lowest(S) == CHOOSE i \in S : \A k \in S : i <= k

\* C23: for every list of queue families the graphics family recorded is the
\* lowest index of a family with graphics and the present family the lowest
\* index of a family that can present, each whatever the other is; a
\* capability has no index exactly when no family has it.
C23_LowestFamilyIndices ==
    sel_pc = "families_found" =>
        /\ physdev_indices.graphics_family =
                IF GraphicsFamilies = {} THEN nullopt ELSE {Lowest(GraphicsFamilies)}
        /\ physdev_indices.present_family =
                IF PresentFamilies = {} THEN nullopt ELSE {Lowest(PresentFamilies)}
        /\ (physdev_indices.graphics_family = nullopt) <=> (GraphicsFamilies = {})
        /\ (physdev_indices.present_family = nullopt) <=> (PresentFamilies = {})

\* families 1 and 2 have graphics, families 0 and 2 can present: graphics
\* family 1, present family 0
C23_Witness ==
    /\ sel_pc = "families_found"
    /\ GraphicsFamilies = {1, 2}
    /\ PresentFamilies = {0, 2}
    /\ physdev_indices = [graphics_family |-> {1}, present_family |-> {0}]

\* ------------------------------------------------------------------------
\* main(): startup (main.cpp:710-856)
\* ------------------------------------------------------------------------

\* what vkEnumeratePhysicalDevices reports to main(): no device or one device
StartupDeviceLists == {list \in DeviceLists : Len(list) <= 1}

\* the loop of find_physical_device, main.cpp:290-296, from device i on
RECURSIVE ScanPhysicalDevices(_, _, _, _)
ScanPhysicalDevices(devices, i, best, highest) ==
    IF i >= Len(devices) THEN best
    ELSE LET score == rate_physical_device(devices[i + 1]) IN
         IF IsBetter(score, highest)
         THEN ScanPhysicalDevices(devices, i + 1, i + 1, score)
         ELSE ScanPhysicalDevices(devices, i + 1, best, highest)

\* find_physical_device, main.cpp:281-299
find_physical_device(devices) ==
    LET best == ScanPhysicalDevices(devices, 0, 0, INT_MIN) IN
    IF best = 0 THEN nullptr ELSE {devices[best]}

\* the device main()'s physdev refers to
Selected_physdev == CHOOSE d \in main_physdev : TRUE

StartupInit ==
    /\ boot_pc = "glfwInit"
    /\ main_physdev = nullptr
    /\ failed_calls = {}
    /\ swapchain_images = 0
    /\ swapchain_image_views = <<>>
    /\ swapchain_framebuffers = <<>>
    /\ sync_i = 0

\* glfwInit(), main.cpp:713-716
GlfwInit ==
    /\ boot_pc = "glfwInit"
    /\ \/ /\ boot_pc' = "glfwCreateWindow"
          /\ UNCHANGED failed_calls
       \/ /\ boot_pc' = "exit1"
          /\ failed_calls' = failed_calls \cup {"glfwInit"}
    /\ UNCHANGED <<main_physdev, swapchain_images, swapchain_image_views,
                   swapchain_framebuffers, sync_i>>
    /\ UNCHANGED <<loopVars, selVars, swapVars>>

\* glfwCreateWindow, main.cpp:720-724
GlfwCreateWindow ==
    /\ boot_pc = "glfwCreateWindow"
    /\ \/ /\ boot_pc' = "create_instance"
          /\ UNCHANGED failed_calls
       \/ /\ boot_pc' = "exit1"
          /\ failed_calls' = failed_calls \cup {"glfwCreateWindow"}
    /\ UNCHANGED <<main_physdev, swapchain_images, swapchain_image_views,
                   swapchain_framebuffers, sync_i>>
    /\ UNCHANGED <<loopVars, selVars, swapVars>>

\* create_instance, main.cpp:89-122, 728-732
CreateInstance ==
    /\ boot_pc = "create_instance"
    /\ \/ /\ boot_pc' = "create_debug_utils_messenger"
          /\ UNCHANGED failed_calls
       \/ /\ boot_pc' = "exit1"
          /\ failed_calls' = failed_calls \cup {"vkCreateInstance"}
    /\ UNCHANGED <<main_physdev, swapchain_images, swapchain_image_views,
                   swapchain_framebuffers, sync_i>>
    /\ UNCHANGED <<loopVars, selVars, swapVars>>

\* create_debug_utils_messenger, main.cpp:124-133, 734-738
CreateDebugUtilsMessenger ==
    /\ boot_pc = "create_debug_utils_messenger"
    /\ \/ /\ boot_pc' = "create_surface"
          /\ UNCHANGED failed_calls
       \/ /\ boot_pc' = "exit1"
          /\ failed_calls' = failed_calls \cup {"vkCreateDebugUtilsMessengerEXT"}
    /\ UNCHANGED <<main_physdev, swapchain_images, swapchain_image_views,
                   swapchain_framebuffers, sync_i>>
    /\ UNCHANGED <<loopVars, selVars, swapVars>>

\* create_surface, main.cpp:342-351, 740-744
CreateSurface ==
    /\ boot_pc = "create_surface"
    /\ \/ /\ boot_pc' = "find_physical_device"
          /\ UNCHANGED failed_calls
       \/ /\ boot_pc' = "exit1"
          /\ failed_calls' = failed_calls \cup {"glfwCreateWindowSurface"}
    /\ UNCHANGED <<main_physdev, swapchain_images, swapchain_image_views,
                   swapchain_framebuffers, sync_i>>
    /\ UNCHANGED <<loopVars, selVars, swapVars>>

\* find_physical_device and the test of its result, main.cpp:746-750
FindPhysicalDevice ==
    /\ boot_pc = "find_physical_device"
    /\ \E devices \in StartupDeviceLists :
            main_physdev' = find_physical_device(devices)
    /\ boot_pc' = IF main_physdev' = nullptr THEN "exit1" ELSE "find_queue_families"
    /\ UNCHANGED <<failed_calls, swapchain_images, swapchain_image_views,
                   swapchain_framebuffers, sync_i>>
    /\ UNCHANGED <<loopVars, selVars, swapVars>>

\* find_queue_families and value() of the two indices, main.cpp:758-762: value()
\* of an empty optional throws std::bad_optional_access, which nothing catches
FindQueueFamilies ==
    /\ boot_pc = "find_queue_families"
    /\ boot_pc' = IF is_complete(find_queue_families(Selected_physdev))
                  THEN "create_device" ELSE "terminated"
    /\ UNCHANGED <<main_physdev, failed_calls, swapchain_images,
                   swapchain_image_views, swapchain_framebuffers, sync_i>>
    /\ UNCHANGED <<loopVars, selVars, swapVars>>

\* create_device, main.cpp:301-340, 764-768
CreateDevice ==
    /\ boot_pc = "create_device"
    /\ \/ /\ boot_pc' = "create_swapchain"
          /\ UNCHANGED failed_calls
       \/ /\ boot_pc' = "exit1"
          /\ failed_calls' = failed_calls \cup {"vkCreateDevice"}
    /\ UNCHANGED <<main_physdev, swapchain_images, swapchain_image_views,
                   swapchain_framebuffers, sync_i>>
    /\ UNCHANGED <<loopVars, selVars, swapVars>>

\* create_swapchain, main.cpp:353-400, 776-780. get_surface_format reads
\* formats[0] of an empty list when the device reports no format: the read is
\* undefined, the process crashes or goes on with whatever was read
MainCreateSwapchain ==
    /\ boot_pc = "create_swapchain"
    /\ \/ /\ boot_pc' = "get_swapchain_images"
          /\ UNCHANGED failed_calls
       \/ /\ boot_pc' = "exit1"
          /\ failed_calls' = failed_calls \cup {"vkCreateSwapchainKHR"}
       \/ /\ Selected_physdev.formats = <<>>
          /\ boot_pc' = "terminated"
          /\ UNCHANGED failed_calls
    /\ UNCHANGED <<main_physdev, swapchain_images, swapchain_image_views,
                   swapchain_framebuffers, sync_i>>
    /\ UNCHANGED <<loopVars, selVars, swapVars>>

\* vkGetSwapchainImagesKHR, main.cpp:782-786: the results are not looked at,
\* the count stays 0 when the call fails
GetSwapchainImages ==
    /\ boot_pc = "get_swapchain_images"
    /\ \E count \in 0 .. NumImages :
            /\ swapchain_images' = count
            /\ failed_calls' = IF count = 0
                               THEN failed_calls \cup {"vkGetSwapchainImagesKHR"}
                               ELSE failed_calls
    /\ boot_pc' = "create_swapchain_image_views"
    /\ UNCHANGED <<main_physdev, swapchain_image_views, swapchain_framebuffers, sync_i>>
    /\ UNCHANGED <<loopVars, selVars, swapVars>>

\* a loop that stops at the first view that is not created and returns the
\* views it has
CreateImageView_StopAtFailure ==
    /\ boot_pc = "create_swapchain_image_views"
    /\ Len(swapchain_image_views) < swapchain_images
    /\ \/ /\ swapchain_image_views' = Append(swapchain_image_views, "view")
          /\ UNCHANGED <<boot_pc, failed_calls>>
       \/ /\ failed_calls' = failed_calls \cup {"vkCreateImageView"}
          /\ boot_pc' = IF swapchain_image_views = <<>> THEN "exit1"
                        ELSE "create_pipeline_layout"
          /\ UNCHANGED swapchain_image_views
    /\ UNCHANGED <<main_physdev, swapchain_images, swapchain_framebuffers, sync_i>>
    /\ UNCHANGED <<loopVars, selVars, swapVars>>

\* one turn of the loop of create_swapchain_image_views, main.cpp:405-429: on a
\* failure the error is logged and the handle, which nothing has written, is
\* pushed all the same
CreateImageView ==
    /\ boot_pc = "create_swapchain_image_views"
    /\ Len(swapchain_image_views) < swapchain_images
    /\ \/ /\ swapchain_image_views' = Append(swapchain_image_views, "view")
          /\ UNCHANGED failed_calls
       \/ /\ swapchain_image_views' = Append(swapchain_image_views, "indeterminate")
          /\ failed_calls' = failed_calls \cup {"vkCreateImageView"}
    /\ UNCHANGED <<boot_pc, main_physdev, swapchain_images, swapchain_framebuffers,
                   sync_i>>
    /\ UNCHANGED <<loopVars, selVars, swapVars>>

\* return image_views and if (swapchain_image_views.empty()), main.cpp:431,
\* 792-796
ImageViewsReturn ==
    /\ boot_pc = "create_swapchain_image_views"
    /\ Len(swapchain_image_views) = swapchain_images
    /\ boot_pc' = IF swapchain_image_views = <<>> THEN "exit1"
                  ELSE "create_pipeline_layout"
    /\ UNCHANGED <<main_physdev, failed_calls, swapchain_images,
                   swapchain_image_views, swapchain_framebuffers, sync_i>>
    /\ UNCHANGED <<loopVars, selVars, swapVars>>

\* create_pipeline_layout, main.cpp:468-484, 798-802
CreatePipelineLayout ==
    /\ boot_pc = "create_pipeline_layout"
    /\ \/ /\ boot_pc' = "create_render_pass"
          /\ UNCHANGED failed_calls
       \/ /\ boot_pc' = "exit1"
          /\ failed_calls' = failed_calls \cup {"vkCreatePipelineLayout"}
    /\ UNCHANGED <<main_physdev, swapchain_images, swapchain_image_views,
                   swapchain_framebuffers, sync_i>>
    /\ UNCHANGED <<loopVars, selVars, swapVars>>

\* create_render_pass, main.cpp:486-532, 804-808
CreateRenderPass ==
    /\ boot_pc = "create_render_pass"
    /\ \/ /\ boot_pc' = "create_graphics_pipeline"
          /\ UNCHANGED failed_calls
       \/ /\ boot_pc' = "exit1"
          /\ failed_calls' = failed_calls \cup {"vkCreateRenderPass"}
    /\ UNCHANGED <<main_physdev, swapchain_images, swapchain_image_views,
                   swapchain_framebuffers, sync_i>>
    /\ UNCHANGED <<loopVars, selVars, swapVars>>

\* create_graphics_pipeline, main.cpp:534-646, 810-814: the two shader modules
\* are not tested, vkCreateGraphicsPipelines is
CreateGraphicsPipeline ==
    /\ boot_pc = "create_graphics_pipeline"
    /\ \E shaders_created \in BOOLEAN :
        LET failed == IF shaders_created THEN failed_calls
                      ELSE failed_calls \cup {"vkCreateShaderModule"}
        IN \/ /\ boot_pc' = "create_framebuffers"
              /\ failed_calls' = failed
           \/ /\ boot_pc' = "exit1"
              /\ failed_calls' = failed \cup {"vkCreateGraphicsPipelines"}
    /\ UNCHANGED <<main_physdev, swapchain_images, swapchain_image_views,
                   swapchain_framebuffers, sync_i>>
    /\ UNCHANGED <<loopVars, selVars, swapVars>>

\* one turn of the loop of create_framebuffers, main.cpp:651-672: on a failure
\* the error is logged and the handle is pushed all the same
CreateFramebuffer ==
    /\ boot_pc = "create_framebuffers"
    /\ Len(swapchain_framebuffers) < Len(swapchain_image_views)
    /\ \/ /\ swapchain_framebuffers' = Append(swapchain_framebuffers, "framebuffer")
          /\ UNCHANGED failed_calls
       \/ /\ swapchain_framebuffers' = Append(swapchain_framebuffers, "indeterminate")
          /\ failed_calls' = failed_calls \cup {"vkCreateFramebuffer"}
    /\ UNCHANGED <<boot_pc, main_physdev, swapchain_images, swapchain_image_views,
                   sync_i>>
    /\ UNCHANGED <<loopVars, selVars, swapVars>>

\* return swapchain_framebuffers and if (swapchain_framebuffers.empty()),
\* main.cpp:674, 816-820
FramebuffersReturn ==
    /\ boot_pc = "create_framebuffers"
    /\ Len(swapchain_framebuffers) = Len(swapchain_image_views)
    /\ boot_pc' = IF swapchain_framebuffers = <<>> THEN "exit1"
                  ELSE "create_command_pool"
    /\ UNCHANGED <<main_physdev, failed_calls, swapchain_images,
                   swapchain_image_views, swapchain_framebuffers, sync_i>>
    /\ UNCHANGED <<loopVars, selVars, swapVars>>

\* create_command_pool, main.cpp:677-691, 822-826
CreateCommandPool ==
    /\ boot_pc = "create_command_pool"
    /\ \/ /\ boot_pc' = "create_command_buffers"
          /\ UNCHANGED failed_calls
       \/ /\ boot_pc' = "exit1"
          /\ failed_calls' = failed_calls \cup {"vkCreateCommandPool"}
    /\ UNCHANGED <<main_physdev, swapchain_images, swapchain_image_views,
                   swapchain_framebuffers, sync_i>>
    /\ UNCHANGED <<loopVars, selVars, swapVars>>

\* create_command_buffers, main.cpp:693-708, 828-832
CreateCommandBuffers ==
    /\ boot_pc = "create_command_buffers"
    /\ \/ /\ boot_pc' = "create_sync_objects"
          /\ UNCHANGED failed_calls
       \/ /\ boot_pc' = "exit1"
          /\ failed_calls' = failed_calls \cup {"vkAllocateCommandBuffers"}
    /\ UNCHANGED <<main_physdev, swapchain_images, swapchain_image_views,
                   swapchain_framebuffers, sync_i>>
    /\ UNCHANGED <<loopVars, selVars, swapVars>>

\* one turn of the loop of main.cpp:840-854: two semaphores and a fence, the
\* first failure ends the process
CreateSyncObjects ==
    /\ boot_pc = "create_sync_objects"
    /\ sync_i < MAX_FRAMES_IN_FLIGHT
    /\ \/ /\ sync_i' = sync_i + 1
          /\ UNCHANGED <<boot_pc, failed_calls>>
       \/ /\ \E call \in {"vkCreateSemaphore", "vkCreateFence"} :
                failed_calls' = failed_calls \cup {call}
          /\ boot_pc' = "exit1"
          /\ UNCHANGED sync_i
    /\ UNCHANGED <<main_physdev, swapchain_images, swapchain_image_views,
                   swapchain_framebuffers>>
    /\ UNCHANGED <<loopVars, selVars, swapVars>>

\* the end of the loop of main.cpp:840 and the entry to the frame loop,
\* main.cpp:856-858
EnterFrameLoop ==
    /\ boot_pc = "create_sync_objects"
    /\ sync_i = MAX_FRAMES_IN_FLIGHT
    /\ boot_pc' = "frame_loop"
    /\ UNCHANGED <<main_physdev, failed_calls, swapchain_images,
                   swapchain_image_views, swapchain_framebuffers, sync_i>>
    /\ UNCHANGED <<loopVars, selVars, swapVars>>

StartupNext ==
    \/ GlfwInit
    \/ GlfwCreateWindow
    \/ CreateInstance
    \/ CreateDebugUtilsMessenger
    \/ CreateSurface
    \/ FindPhysicalDevice
    \/ FindQueueFamilies
    \/ CreateDevice
    \/ MainCreateSwapchain
    \/ GetSwapchainImages
    \/ CreateImageView
    \/ ImageViewsReturn
    \/ CreatePipelineLayout
    \/ CreateRenderPass
    \/ CreateGraphicsPipeline
    \/ CreateFramebuffer
    \/ FramebuffersReturn
    \/ CreateCommandPool
    \/ CreateCommandBuffers
    \/ CreateSyncObjects
    \/ EnterFrameLoop

InitStartup == LoopState("startup") /\ SelectIdle /\ SwapchainIdle /\ StartupInit

SpecStartup == InitStartup /\ [][StartupNext]_vars

\* ------------------------------------------------------------------------
\* Properties of startup
\* ------------------------------------------------------------------------

\* the creation calls whose failure is to end the process
CreationCalls ==
    {"vkCreateInstance", "vkCreateDebugUtilsMessengerEXT", "glfwCreateWindowSurface",
     "vkCreateDevice", "vkCreateSwapchainKHR", "vkCreateImageView",
     "vkCreatePipelineLayout", "vkCreateRenderPass", "vkCreateGraphicsPipelines",
     "vkCreateFramebuffer", "vkCreateCommandPool", "vkAllocateCommandBuffers",
     "vkCreateSemaphore", "vkCreateFence"}

\* the device main() goes on with does not meet the requirements
\* of rate_physical_device
NegotiationFailed ==
    /\ main_physdev # nullptr
    /\ rate_physical_device(Selected_physdev) = -1

\* C15: once a creation call of startup has returned a failure, or no device
\* meets the requirements, the frame loop is not entered.
C15_StartupFailureFatal ==
    (failed_calls \cap CreationCalls # {} \/ NegotiationFailed)
        => boot_pc # "frame_loop"

\* create_swapchain_image_views has returned and main() has gone on
ViewsReturned ==
    boot_pc \in {"create_pipeline_layout", "create_render_pass",
                 "create_graphics_pipeline", "create_framebuffers",
                 "create_command_pool", "create_command_buffers",
                 "create_sync_objects", "frame_loop"}

\* C19 as stated: when the creation of an image view has failed, the loop goes
\* on to the remaining images, and the list create_swapchain_image_views
\* returns has a count different from the number of swap chain images.
C19_ViewCountDiffers ==
    ("vkCreateImageView" \in failed_calls /\ ViewsReturned)
        => Len(swapchain_image_views) # swapchain_images

\* C19 as amended: when the creation of an image view has failed, the loop goes
\* on to the remaining images, and the list create_swapchain_image_views
\* returns has one entry for each swap chain image, the entry of an image
\* whose view was not created being a handle nothing has written; main() goes
\* on with this list.
C19_ViewCountEqual ==
    /\ Len(swapchain_image_views) <= swapchain_images
    /\ ("vkCreateImageView" \in failed_calls)
            <=> (\E n \in DOMAIN swapchain_image_views :
                        swapchain_image_views[n] = "indeterminate")
    /\ ("vkCreateImageView" \in failed_calls /\ ViewsReturned) =>
            Len(swapchain_image_views) = swapchain_images
    /\ failed_calls = {"vkCreateImageView"} => boot_pc # "exit1"

\* the view of the first of three images was not created, the two others
\* were, and main() has gone on to the pipeline layout
C19_Witness ==
    /\ boot_pc = "create_pipeline_layout"
    /\ swapchain_images = 3
    /\ swapchain_image_views = <<"indeterminate", "view", "view">>
    /\ failed_calls = {"vkCreateImageView"}

Init == LoopState("loop_test") /\ SelectIdle /\ SwapchainIdle /\ StartupIdle

Next ==
    \/ LoopTest
    \/ PollEvents
    \/ WaitForFences
    \/ ResetFences
    \/ AcquireNextImage
    \/ ResetCommandBuffer
    \/ BeginCommandBuffer
    \/ RecordCommandBuffer
    \/ QueueSubmit
    \/ QueuePresent
    \/ Advance
    \/ DeviceWaitIdle
    \/ Teardown
    \/ ReturnZero
    \/ ImageAvailable
    \/ JobStart
    \/ JobComplete
    \/ PresentExecute

Spec == Init /\ [][Next]_vars

\* the steps of the control thread, main.cpp:858-975
ControlStep ==
    \/ LoopTest
    \/ PollEvents
    \/ WaitForFences
    \/ ResetFences
    \/ AcquireNextImage
    \/ ResetCommandBuffer
    \/ BeginCommandBuffer
    \/ RecordCommandBuffer
    \/ QueueSubmit
    \/ QueuePresent
    \/ Advance
    \/ DeviceWaitIdle
    \/ Teardown
    \/ ReturnZero

\* The frame loop under the scheduling the code relies on: the control thread
\* takes its next step whenever it has one (a blocking call returns once its
\* condition holds), the presentation engine signals the semaphore of every
\* granted acquire and executes every present request whose wait is satisfied,
\* and the queue starts every submission whose wait semaphore is signaled and
\* completes every submission it started.
Fairness ==
    /\ WF_vars(ControlStep)
    /\ WF_vars(ImageAvailable)
    /\ WF_vars(JobStart)
    /\ WF_vars(JobComplete)
    /\ WF_vars(PresentExecute)

SpecLive == Init /\ [][Next]_vars /\ Fairness

\* ------------------------------------------------------------------------
\* Properties of the frame loop
\* ------------------------------------------------------------------------

\* the submissions not yet complete that execute the command buffer of a slot
Outstanding(slot) == {j \in jobs : j.command_buffer = slot}

\* C1: in every iteration the fence of the slot in use has been observed
\* signaled by the fence wait before the slot's command buffer is reset or
\* recorded again, and no command buffer is reset or re-recorded while a
\* submission that uses it is still outstanding on the device.
C1_FenceObservedBeforeReset ==
    /\ pc \in {"reset_fence", "acquire", "reset_cb", "begin", "record", "submit"}
            => fence_observed
    /\ pc \in {"reset_cb", "begin", "record", "submit"}
            => Outstanding(current_frame) = {}
    /\ \A i \in Slots : command_buffers[i] # "invalid"

\* a slot is about to be reset for its second use, after its first submission
\* completed and its fence wait returned
C1_Witness ==
    /\ pc = "reset_cb"
    /\ frame > MAX_FRAMES_IN_FLIGHT
    /\ fence_observed
    /\ (frame - MAX_FRAMES_IN_FLIGHT) \in rendered
    /\ command_buffers[current_frame] = "executable"

\* C2: in every reachable state the number of submissions that have been
\* submitted and have not yet completed is at most MAX_FRAMES_IN_FLIGHT.
C2_AtMostKInFlight == Cardinality(jobs) <= MAX_FRAMES_IN_FLIGHT

\* both slots have a submission outstanding while the loop has already gone
\* round the ring once
C2_Witness ==
    /\ Cardinality(jobs) = MAX_FRAMES_IN_FLIGHT
    /\ frame > MAX_FRAMES_IN_FLIGHT

\* C3: a submission reaches its color-attachment-output stage only after the
\* image-available signal of the acquire of its own iteration has fired, and a
\* present request executes only after the submission of its own iteration has
\* completed (and so signaled render-finished).
C3_SemaphoreOrdering ==
    /\ color_reached \subseteq acq_fired
    /\ presented \subseteq rendered

\* the present request of an iteration that reused a slot has executed
C3_Witness ==
    /\ presented # {}
    /\ \E n \in presented : n > MAX_FRAMES_IN_FLIGHT /\ n \in color_reached

\* C4: whenever the fence wait of an iteration has returned, no operation of the
\* slot's previous iteration is still pending on the slot's image-available or
\* render-finished semaphore.
C4_FenceBarrierSuffices ==
    pc = "reset_fence" =>
        /\ \A a \in acquires : a.semaphore # current_frame
        /\ \A j \in jobs : j.stage = "queued" => current_frame \notin j.wait
        /\ \A n \in 1 .. Len(presents) : current_frame \notin presents[n].wait

\* ------------------------------------------------------------------------
\* Properties of shutdown, of failures in the loop and of the order of steps
\* ------------------------------------------------------------------------

\* the objects main.cpp:947-972 destroys
Resources == Range(TeardownOrder)

PerFrameObjects ==
    {"image_available_semaphores[0]", "render_finished_semaphores[0]",
     "in_flight_fences[0]", "image_available_semaphores[1]",
     "render_finished_semaphores[1]", "in_flight_fences[1]"}

\* the place of an object in the order the specification lists
ReleaseRank(r) ==
    CASE r \in PerFrameObjects -> 1
      [] r = "command_pool" -> 2
      [] r = "swapchain_framebuffers" -> 3
      [] r = "pipeline" -> 4
      [] r = "render_pass" -> 5
      [] r = "pipeline_layout" -> 6
      [] r = "swapchain_image_views" -> 7
      [] r = "swapchain" -> 8
      [] r = "device" -> 9
      [] r = "surface" -> 10
      [] r = "debug_messenger" -> 11
      [] r = "instance" -> 12

\* the objects an object was created from (the handles passed to the call
\* that created it, main.cpp:727-854)
CreatedFrom(r) ==
    CASE r \in PerFrameObjects -> {"device"}
      [] r = "command_pool" -> {"device"}
      [] r = "swapchain_framebuffers" ->
            {"device", "render_pass", "swapchain_image_views"}
      [] r = "pipeline" -> {"device", "pipeline_layout", "render_pass"}
      [] r = "render_pass" -> {"device"}
      [] r = "pipeline_layout" -> {"device"}
      [] r = "swapchain_image_views" -> {"device", "swapchain"}
      [] r = "swapchain" -> {"device", "surface"}
      [] r = "device" -> {"instance"}
      [] r = "surface" -> {"instance"}
      [] r = "debug_messenger" -> {"instance"}
      [] r = "instance" -> {}

\* C14: on normal shutdown nothing is destroyed before vkDeviceWaitIdle has
\* returned with no submission outstanding; the objects are destroyed in the
\* order per-frame semaphores and fences, command pool, framebuffers, pipeline,
\* render pass, pipeline layout, image views, swap chain, device, surface,
\* debug messenger, instance, each once; no object is destroyed before one that
\* was created from it; at exit all of them are destroyed.
C14_TeardownOrder ==
    /\ destroyed # <<>> =>
            /\ pc \in {"teardown", "done"}
            /\ should_close
            /\ jobs = {}
    /\ \A i, j \in DOMAIN destroyed :
            i < j =>
                /\ destroyed[i] # destroyed[j]
                /\ ReleaseRank(destroyed[i]) <= ReleaseRank(destroyed[j])
                /\ destroyed[i] \notin CreatedFrom(destroyed[j])
    /\ pc = "done" => Range(destroyed) = Resources

\* the process returned 0 after two iterations with every object destroyed
C14_Witness ==
    /\ pc = "done"
    /\ frame = 2
    /\ rendered = {1, 2}
    /\ Len(destroyed) = Len(TeardownOrder)
    /\ destroyed[Len(destroyed)] = "instance"

\* the errors the loop logs before return 1, main.cpp:881, 904, 925
BeginFailed == "Failed to begin recording command buffer."

EndFailed == "Failed to record command buffer."

SubmitFailed == "Failed to submit draw command buffer"

\* the iteration in progress has submitted work
SubmittedThisFrame ==
    \/ \E j \in jobs : j.frame = frame
    \/ frame \in color_reached \cup rendered

\* the iteration in progress has issued a present request
PresentedThisFrame ==
    \/ \E n \in DOMAIN presents : presents[n].frame = frame
    \/ frame \in presented
    \/ "vkQueuePresentKHR" \in Range(calls)

\* C16: once vkBeginCommandBuffer, vkEndCommandBuffer or vkQueueSubmit has
\* returned a failure in an iteration, the process has left with status 1 in
\* that iteration, the failing call being the last call of the loop: nothing
\* was submitted after a begin or end failure, nothing was presented after any
\* of the three, and the slot index was not advanced.
C16_LoopFailureFatal ==
    logged # "none" =>
        /\ pc = "failed"
        /\ logged = BeginFailed => calls[Len(calls)] = "vkBeginCommandBuffer"
        /\ logged = EndFailed => calls[Len(calls)] = "vkEndCommandBuffer"
        /\ logged = SubmitFailed => calls[Len(calls)] = "vkQueueSubmit"
        /\ logged \in {BeginFailed, EndFailed} => "vkQueueSubmit" \notin Range(calls)
        /\ ~ SubmittedThisFrame
        /\ ~ PresentedThisFrame
        /\ "advance" \notin Range(calls)
        /\ current_frame = (frame - 1) % MAX_FRAMES_IN_FLIGHT
        /\ destroyed = <<>>

\* vkQueueSubmit failed in the second iteration, on slot 1, with the work of
\* the first iteration still on the queue
C16_Witness ==
    /\ logged = SubmitFailed
    /\ pc = "failed"
    /\ frame = 2
    /\ current_frame = 1
    /\ jobs # {}

\* main() is inside the loop of main.cpp:858-943
InLoop == pc \in {"loop_test", "poll", "wait", "reset_fence", "acquire", "reset_cb",
                  "begin", "record", "submit", "present", "advance"}

\* C17 as stated: the loop is left only by the test of the close flag at the
\* start of an iteration; an iteration that has started is never left before
\* its present request and its advance.
C17_ExitOnlyAtLoopTest ==
    [][(InLoop /\ ~ InLoop') => (pc = "loop_test" /\ should_close)]_vars

\* C17 as amended: the loop is left either by the test of the close flag at
\* the start of an iteration, or by return 1 when vkBeginCommandBuffer,
\* vkEndCommandBuffer or vkQueueSubmit fails; a close request that arrives
\* during an iteration does not end the iteration.
C17_ExitAmended ==
    [][(InLoop /\ ~ InLoop') =>
            \/ pc = "loop_test" /\ should_close /\ pc' = "wait_idle"
            \/ /\ pc \in {"begin", "record", "submit"}
               /\ pc' = "failed"
               /\ logged' \in {BeginFailed, EndFailed, SubmitFailed}]_vars

\* the order of the calls of one iteration in the code, main.cpp:866-942
CodeOrder ==
    <<"vkWaitForFences", "vkResetFences", "vkAcquireNextImageKHR",
      "vkResetCommandBuffer", "vkBeginCommandBuffer", "vkEndCommandBuffer",
      "vkQueueSubmit", "vkQueuePresentKHR", "advance">>

\* the close request arrived in the second iteration, which made all its calls
\* before the loop was left
C17_Witness ==
    /\ pc = "wait_idle"
    /\ should_close
    /\ frame = 2
    /\ calls = CodeOrder

\* the step of the specification a call belongs to: Wait, Reset, Acquire,
\* Record, Submit, Present, Advance
SpecStep(call) ==
    CASE call = "vkWaitForFences" -> 1
      [] call = "vkResetFences" -> 2
      [] call = "vkResetCommandBuffer" -> 2
      [] call = "vkAcquireNextImageKHR" -> 3
      [] call = "vkBeginCommandBuffer" -> 4
      [] call = "vkEndCommandBuffer" -> 4
      [] call = "vkQueueSubmit" -> 5
      [] call = "vkQueuePresentKHR" -> 6
      [] call = "advance" -> 7

\* C18 as stated: the calls of an iteration follow the order Wait, Reset,
\* Acquire, Record, Submit, Present, Advance, the fence and the command buffer
\* both being reset before the image is acquired.
C18_SpecStepOrder ==
    \A i, j \in DOMAIN calls : i < j => SpecStep(calls[i]) <= SpecStep(calls[j])

IsPrefix(a, b) == Len(a) <= Len(b) /\ \A n \in DOMAIN a : a[n] = b[n]

\* C18 as amended: the calls of an iteration are made in the order wait for
\* the fence, reset the fence, acquire the image, reset the command buffer,
\* record, submit, present, advance: the fence is reset before the image is
\* acquired and the command buffer after it.
C18_CodeStepOrder == IsPrefix(calls, CodeOrder)

\* the third iteration has made all its calls
C18_Witness ==
    /\ pc = "loop_test"
    /\ frame = 3
    /\ calls = CodeOrder

\* C20: a step of main() in an iteration on slot i leaves the command buffer,
\* the fence and the two semaphores of the other slot as they are, and what it
\* queues (acquire, submission, present request) names only the objects of
\* slot i; no step of the run changes the swap chain, its extent, the render
\* pass, the pipeline or the framebuffers, also after the framebuffer size
\* changed or vkQueuePresentKHR reported out of date.
C20_OwnSlotOnly ==
    [][/\ (InLoop /\ pc' # pc) =>
            /\ \A s \in Slots \ {current_frame} :
                    /\ command_buffers'[s] = command_buffers[s]
                    /\ in_flight_fences'[s] = in_flight_fences[s]
                    /\ image_available_semaphores'[s] = image_available_semaphores[s]
                    /\ render_finished_semaphores'[s] = render_finished_semaphores[s]
            /\ \A a \in acquires' \ acquires : a.semaphore = current_frame
            /\ \A j \in jobs' \ jobs :
                    /\ j.command_buffer = current_frame
                    /\ j.fence = current_frame
                    /\ j.wait \cup j.signal \subseteq {current_frame}
            /\ Len(presents') > Len(presents) =>
                    presents'[Len(presents')].wait \subseteq {current_frame}
       /\ swapchain_objects' = swapchain_objects
       /\ swapchain_objects = Constructed]_vars

\* the loop goes on with the objects it was given after an out-of-date present
\* result on a resized framebuffer, while the other slot's work is on the queue
C20_Witness ==
    /\ framebuffer_resized
    /\ present_result = "VK_ERROR_OUT_OF_DATE_KHR"
    /\ frame = 3
    /\ pc = "record"
    /\ \E j \in jobs : j.command_buffer # current_frame
    /\ swapchain_objects = Constructed

\* ------------------------------------------------------------------------
\* Properties of the slot index and of the ignored results
\* ------------------------------------------------------------------------

\* main() is in the body of an iteration, before or at its advance
InIteration == pc \in {"poll", "wait", "reset_fence", "acquire", "reset_cb", "begin",
                       "record", "submit", "present", "advance", "failed"}

\* C21: the slot index starts at 0 and is always in 0 .. K-1 with K = 2; the
\* n-th iteration, counted from 0, runs on slot n mod K, and once it has
\* completed the index is (n + 1) mod K, so that two consecutive iterations
\* never run on the same slot.
C21_SlotRotation ==
    /\ current_frame \in 0 .. (MAX_FRAMES_IN_FLIGHT - 1)
    /\ MAX_FRAMES_IN_FLIGHT = 2
    /\ frame = 0 => current_frame = 0
    /\ InIteration => current_frame = (frame - 1) % MAX_FRAMES_IN_FLIGHT
    /\ ~ InIteration => current_frame = frame % MAX_FRAMES_IN_FLIGHT
    /\ \A j \in jobs : j.command_buffer = (j.frame - 1) % MAX_FRAMES_IN_FLIGHT

\* the fourth iteration runs on slot 1 while the work of the third, on slot 0,
\* is on the queue
C21_Witness ==
    /\ pc = "record"
    /\ frame = 4
    /\ current_frame = 1
    /\ \E j \in jobs : j.frame = 3 /\ j.command_buffer = 0

\* C22: whatever vkAcquireNextImageKHR returns, main() goes on to the reset
\* of the command buffer, with image_index 0 when no image was acquired; the
\* submission draws into the framebuffer of image_index and the present
\* request names image_index; whatever vkQueuePresentKHR returns, main() goes
\* on to the advance, which moves to the next slot; the loop is left for
\* return 1 only on a failure of begin, end or submit.
C22_ResultsIgnored ==
    [][/\ (pc = "acquire" /\ pc' # pc) =>
            /\ pc' = "reset_cb"
            /\ acquire_result' \in AcquireResults
            /\ acquire_result' \notin {"VK_SUCCESS", "VK_SUBOPTIMAL_KHR"}
                    => (image_index' = 0 /\ acquires' = acquires)
       /\ (pc = "reset_cb" /\ pc' # pc) => pc' = "begin"
       /\ (pc = "submit" /\ pc' = "present") =>
            \E j \in jobs' \ jobs : j.framebuffer = image_index /\ j.frame = frame
       /\ (pc = "present" /\ pc' # pc) =>
            /\ pc' = "advance"
            /\ present_result' \in PresentResults
            /\ Len(presents') = Len(presents) + 1
            /\ presents'[Len(presents')].image = image_index
       /\ (pc = "advance" /\ pc' # pc) =>
            /\ pc' = "loop_test"
            /\ current_frame' = (current_frame + 1) % MAX_FRAMES_IN_FLIGHT
       /\ (pc # "failed" /\ pc' = "failed") =>
            logged' \in {BeginFailed, EndFailed, SubmitFailed}]_vars

\* the second iteration got out of date from both calls, made all its calls
\* with image_index 0 and advanced to slot 0
C22_Witness ==
    /\ pc = "loop_test"
    /\ frame = 2
    /\ acquire_result = "VK_ERROR_OUT_OF_DATE_KHR"
    /\ present_result = "VK_ERROR_OUT_OF_DATE_KHR"
    /\ image_index = 0
    /\ calls = CodeOrder
    /\ current_frame = 0
    /\ \E j \in jobs : j.frame = 2 /\ j.framebuffer = 0


\* ------------------------------------------------------------------------
\* Progress of the control thread (main.cpp:866-870, 908-927, 945)
\* ------------------------------------------------------------------------

Exited == pc \in {"failed", "done"}

\* C25: under Fairness the control thread never blocks forever: a fence that
\* was reset (main.cpp:867) is signaled again by the submission of the same
\* iteration unless the process exits, the fence wait of main.cpp:866 always
\* returns, and once a close request has been seen the process reaches teardown
\* or exits.
C25_NeverBlocksForever ==
    /\ \A s \in Slots :
            (pc = "acquire" /\ current_frame = s) ~> (in_flight_fences[s] \/ Exited)
    /\ (pc = "wait") ~> (pc = "reset_fence")
    /\ should_close ~> (pc = "teardown" \/ Exited)

====
